---- MODULE Spec2Model ----
(***************************************************************************)
(* A model of openclaw-dex: the core memory index (core-memory.ts) and the *)
(* autonomous behaviour scheduler (behaviors.ts).                          *)
(*                                                                         *)
(* Text is modelled as sequences of one-character strings, so that         *)
(* serialising, parsing, trimming and case folding are computed as the     *)
(* code computes them.  Time is counted in minutes since the epoch (the    *)
(* code counts milliseconds; every duration of the code is a whole number  *)
(* of minutes for the inputs used here).                                   *)
(***************************************************************************)
EXTENDS Integers, Sequences, FiniteSets, TLC

VARIABLES
    now,          \* Date.now(), in minutes since the epoch
    ticks,        \* number of clock advances so far
    tz,           \* offset of local time from UTC, in minutes
    indexFile,    \* <workspace>/memory/index.md: NoFile or its text
    nodeFiles,    \* <workspace>/<path>: path -> the node document there
    dreamFile,    \* <workspace>/.dream-state.json: NoFile or a DreamState
    researchFile, \* <workspace>/.research-state.json: NoFile or a ResearchState
    reportFiles,  \* <workspace>/memory/reports/<date>.md: date -> content
    index,        \* the MemoryIndex held by the last memory operation
    ret,          \* the last operation, its arguments and what it returned
    created,      \* history: the createMemoryNode calls made, in order
    lookups,      \* number of injectMemories and findMatchingNodes calls so far
    activityAt,   \* history: when recordActivity last completed (<<>>: never)
    reported,     \* history: the dates recordMorningReport completed for
    cleared,      \* history: the insights and topics recordMorningReport found
    procs,        \* concurrent callers: the step each one is at and its copy
    dreamVersion, \* history: number of writes of .dream-state.json so far
    overwrote,    \* history: a write replaced a document newer than the one read
    interrupted   \* history: the files before the recordMorningReport call that
                  \* last threw, and the write that failed (<<>>: none threw)

vars == << now, ticks, tz, indexFile, nodeFiles, dreamFile, researchFile,
           reportFiles, index, ret, created, lookups, activityAt, reported, cleared,
           procs, dreamVersion, overwrote, interrupted >>

memVars == << indexFile, nodeFiles, index, created, lookups >>
schedVars == << dreamFile, researchFile, reportFiles, activityAt, reported, cleared >>
raceVars == << procs, dreamVersion, overwrote, interrupted >>

----------------------------------------------------------------------------
(* Bounds of the model *)

MaxCreates == 2
MaxCalls == 1
MaxLookups == 1
MaxRaceTicks == 1
MaxTicks == 4
MaxFaultTicks == 1
MaxLegacyTicks == 2

----------------------------------------------------------------------------
(* Text: characters, case folding, trimming, splitting, joining *)

\* A file is << >> when it does not exist (ENOENT) and << content >> otherwise.
NoFile == << >>

LowerCaseMap ==
    ("A" :> "a") @@ ("B" :> "b") @@ ("C" :> "c") @@ ("D" :> "d") @@ ("E" :> "e") @@
    ("F" :> "f") @@ ("G" :> "g") @@ ("H" :> "h") @@ ("I" :> "i") @@ ("J" :> "j") @@
    ("K" :> "k") @@ ("L" :> "l") @@ ("M" :> "m") @@ ("N" :> "n") @@ ("O" :> "o") @@
    ("P" :> "p") @@ ("Q" :> "q") @@ ("R" :> "r") @@ ("S" :> "s") @@ ("T" :> "t") @@
    ("U" :> "u") @@ ("V" :> "v") @@ ("W" :> "w") @@ ("X" :> "x") @@ ("Y" :> "y") @@
    ("Z" :> "z")

LowerLetters ==
    {"a","b","c","d","e","f","g","h","i","j","k","l","m","n","o","p","q","r","s",
     "t","u","v","w","x","y","z"}

Digits == {"0","1","2","3","4","5","6","7","8","9"}

WhiteSpace == {" ", "\t", "\n", "\r"}

LowerChar(c) == IF c \in DOMAIN LowerCaseMap THEN LowerCaseMap[c] ELSE c

UpperChar(c) ==
    IF c \in LowerLetters
    THEN CHOOSE u \in DOMAIN LowerCaseMap : LowerCaseMap[u] = c
    ELSE c

\* String.prototype.toLowerCase
ToLowerCase(s) == [i \in 1..Len(s) |-> LowerChar(s[i])] \o << >>

\* The first index j >= i of s that holds no white space; Len(s)+1 if none.
SkipWs(s, i) ==
    CHOOSE j \in i..(Len(s) + 1) :
        /\ \A k \in i..(j - 1) : s[k] \in WhiteSpace
        /\ j = Len(s) + 1 \/ s[j] \notin WhiteSpace

\* The least element of a non-empty set of numbers
Least(S) == CHOOSE j \in S : \A k \in S : j <= k

\* The first index j >= i with s[j] = c; 0 if none.
FindChar(s, c, i) ==
    LET hits == {j \in i..Len(s) : s[j] = c}
    IN  IF hits = {} THEN 0 ELSE Least(hits)

RECURSIVE LastNonWs(_, _)
\* The last index j <= i of s that holds no white space; 0 if none.
LastNonWs(s, i) ==
    IF i = 0 THEN 0
    ELSE IF s[i] \notin WhiteSpace THEN i
    ELSE LastNonWs(s, i - 1)

\* String.prototype.trim
Trim(s) ==
    LET a == SkipWs(s, 1)
    IN  IF a > Len(s) THEN << >> ELSE SubSeq(s, a, LastNonWs(s, Len(s)))

\* lit occurs in s at position i
StartsWithAt(s, lit, i) ==
    /\ i >= 1
    /\ i + Len(lit) - 1 <= Len(s)
    /\ \A k \in 1..Len(lit) : s[i + k - 1] = lit[k]

\* String.prototype.includes, for a non-empty lit
Includes(s, lit) ==
    \E i \in 1..(Len(s) - Len(lit) + 1) : s[i] = lit[1] /\ StartsWithAt(s, lit, i)

\* String.prototype.split with a one-character separator: the pieces
\* between the start, the occurrences of c and the end
Split(s, c) ==
    LET seps == {j \in 1..Len(s) : s[j] = c}
        cuts == {0, Len(s) + 1} \cup seps
        \* the k-th cut, counted from 0
        Cut(k) == CHOOSE j \in cuts : Cardinality({x \in cuts : x < j}) = k
    IN  [k \in 1..(Cardinality(seps) + 1) |-> SubSeq(s, Cut(k - 1) + 1, Cut(k) - 1)]
            \o << >>

RECURSIVE JoinRange(_, _, _, _)
\* parts[lo], ..., parts[hi] with sep between them
JoinRange(parts, sep, lo, hi) ==
    IF lo > hi THEN << >>
    ELSE IF lo = hi THEN parts[lo]
    ELSE LET mid == (lo + hi) \div 2
         IN  JoinRange(parts, sep, lo, mid) \o sep \o JoinRange(parts, sep, mid + 1, hi)

\* Array.prototype.join
Join(parts, sep) == JoinRange(parts, sep, 1, Len(parts))

Range(s) == {s[i] : i \in 1..Len(s)}

----------------------------------------------------------------------------
(* The literal text of the index document *)

TXT_MEMORY_INDEX == <<"#"," ","M","e","m","o","r","y"," ","I","n","d","e","x">>
TXT_AUTO_GENERATED ==
    <<">"," ","A","u","t","o","-","g","e","n","e","r","a","t","e","d"," ","b","y",
      " ","C","o","r","e"," ","M","e","m","o","r","y"," ","S","y","s","t","e","m",
      "."," ","E","d","i","t"," ","w","i","t","h"," ","c","a","r","e",".">>
TXT_MEMORIES == <<" ","M","e","m","o","r","i","e","s">>
TXT_H2 == <<"#","#"," ">>
TXT_HDR_CORE == <<"#","#"," ","c","o","r","e">>
TXT_HDR_CONTEXTUAL == <<"#","#"," ","c","o","n","t","e","x","t","u","a","l">>
TXT_HDR_ARCHIVAL == <<"#","#"," ","a","r","c","h","i","v","a","l">>
TXT_KEYWORD == <<"k","e","y","w","o","r","d">>
TXT_ENTRY_OPEN == <<"-"," ","[">>
TXT_ENTRY_LINK == <<"]","(">>
TXT_ENTRY_KEYWORDS == <<")"," ","-"," ","k","e","y","w","o","r","d","s",":"," ">>
TXT_COMMA_SPACE == <<","," ">>
NEWLINE == <<"\n">>

DEFAULT_NODES_DIR == <<"m","e","m","o","r","y","/","n","o","d","e","s">>
TXT_DOT_MD == <<".","m","d">>

TierChars(tier) ==
    CASE tier = "core" -> <<"c","o","r","e">>
      [] tier = "contextual" -> <<"c","o","n","t","e","x","t","u","a","l">>
      [] tier = "archival" -> <<"a","r","c","h","i","v","a","l">>

Tiers == <<"core", "contextual", "archival">>

----------------------------------------------------------------------------
(* Memory index: identity, parsing, serialising (core-memory.ts) *)

\* s[i], or "" when i is outside s
At(s, i) == IF i \in 1..Len(s) THEN s[i] ELSE ""

RECURSIVE SlugFrom(_, _, _)
\* replace(/[^a-z0-9]+/g, "_") from position i on; inRun: the previous
\* character was already replaced
SlugFrom(s, i, inRun) ==
    IF i > Len(s) THEN << >>
    ELSE IF s[i] \in LowerLetters \cup Digits
         THEN << s[i] >> \o SlugFrom(s, i + 1, FALSE)
         ELSE (IF inRun THEN << >> ELSE << "_" >>) \o SlugFrom(s, i + 1, TRUE)

\* const id = title.toLowerCase().replace(/[^a-z0-9]+/g, "_")
NodeId(title) == SlugFrom(ToLowerCase(title), 1, FALSE)

\* path.join(DEFAULT_NODES_DIR, `${id}.md`)
NodeFilePath(id) == DEFAULT_NODES_DIR \o << "/" >> \o id \o TXT_DOT_MD

EmptyIndex == [nodes |-> << >>, keywordMap |-> << >>]

\* index.nodes[id] !== undefined
HasNode(nodes, id) == \E i \in 1..Len(nodes) : nodes[i].id = id

\* index.nodes[id]
NodeOf(nodes, id) == nodes[CHOOSE i \in 1..Len(nodes) : nodes[i].id = id]

\* PutNode as a push onto a list: an id already present is not replaced
PutNodeAppend(nodes, entry) == Append(nodes, entry)

\* An entry put in only when its id is new
PutNodeKeepingFirst(nodes, entry) ==
    IF HasNode(nodes, entry.id) THEN nodes ELSE Append(nodes, entry)

\* index.nodes[id] = entry: an object keeps a key's place when it is reassigned
PutNode(nodes, entry) ==
    IF HasNode(nodes, entry.id)
    THEN [i \in 1..Len(nodes) |-> IF nodes[i].id = entry.id THEN entry ELSE nodes[i]]
    ELSE Append(nodes, entry)

\* index.keywordMap[keyword]: the id list, << >> when the key is missing
IdsOf(keywordMap, keyword) ==
    IF \E i \in 1..Len(keywordMap) : keywordMap[i].keyword = keyword
    THEN keywordMap[CHOOSE i \in 1..Len(keywordMap) : keywordMap[i].keyword = keyword].ids
    ELSE << >>

\* if (!keywordMap[keyword]) keywordMap[keyword] = [];
\* if (!keywordMap[keyword].includes(id)) keywordMap[keyword].push(id);
PutKeyword(keywordMap, keyword, id) ==
    IF \E i \in 1..Len(keywordMap) : keywordMap[i].keyword = keyword
    THEN [i \in 1..Len(keywordMap) |->
            IF keywordMap[i].keyword = keyword /\ id \notin Range(keywordMap[i].ids)
            THEN [keywordMap[i] EXCEPT !.ids = Append(@, id)]
            ELSE keywordMap[i]]
    ELSE Append(keywordMap, [keyword |-> keyword, ids |-> << id >>])

RECURSIVE PutKeywords(_, _, _, _)
\* for (const keyword of keywords) { ... }: the map after the first i keywords
PutKeywords(keywordMap, keywords, i, id) ==
    IF i = 0 THEN keywordMap
    ELSE PutKeyword(PutKeywords(keywordMap, keywords, i - 1, id), keywords[i], id)

\* AddEntry with the keyword map filled with the title in place of the id
AddEntryByTitle(idx, entry) ==
    [nodes |-> PutNode(idx.nodes, entry),
     keywordMap |-> PutKeywords(idx.keywordMap, entry.keywords, Len(entry.keywords), entry.title)]

\* index.nodes[id] = entry, then the keyword map loop
AddEntry(idx, entry) ==
    [nodes |-> PutNode(idx.nodes, entry),
     keywordMap |-> PutKeywords(idx.keywordMap, entry.keywords, Len(entry.keywords), entry.id)]

\* trimmed.match(/^-\s*\[([^\]]+)\]\(([^)]+)\)\s*-?\s*keywords?:\s*(.+)$/i)
NodeMatch(t) ==
    LET a == SkipWs(t, 2)
        b == FindChar(t, "]", a + 1)
        c == FindChar(t, ")", b + 2)
        d == SkipWs(t, c + 1)
        e == IF At(t, d) = "-" THEN d + 1 ELSE d
        f == SkipWs(t, e)
        g == f + Len(TXT_KEYWORD)
        h == IF LowerChar(At(t, g)) = "s" THEN g + 1 ELSE g
        k == SkipWs(t, h + 1)
        ok == /\ At(t, 1) = "-"
              /\ At(t, a) = "["
              /\ b > a + 1
              /\ At(t, b + 1) = "("
              /\ c > b + 2
              /\ StartsWithAt(ToLowerCase(t), TXT_KEYWORD, f)
              /\ At(t, h) = ":"
              /\ k <= Len(t)
    IN  IF ok
        THEN [matched |-> TRUE,
              title |-> SubSeq(t, a + 1, b - 1),
              filePath |-> SubSeq(t, b + 2, c - 1),
              keywordsStr |-> SubSeq(t, k, Len(t))]
        ELSE [matched |-> FALSE]

\* keywordsStr.split(",").map((k) => k.trim().toLowerCase())
ParseKeywords(keywordsStr) ==
    LET parts == Split(keywordsStr, ",")
    IN  [i \in 1..Len(parts) |-> ToLowerCase(Trim(parts[i]))]

\* One line of the loop of parseMemoryIndexMarkdown; acc is the current tier
\* and the index built so far, t the time Date.now() gives.
ParseLine(acc, line, t) ==
    LET trimmed == Trim(line)
        lower == ToLowerCase(trimmed)
        m == NodeMatch(trimmed)
    IN  IF Includes(lower, TXT_HDR_CORE) THEN [acc EXCEPT !.tier = "core"]
        ELSE IF Includes(lower, TXT_HDR_CONTEXTUAL) THEN [acc EXCEPT !.tier = "contextual"]
        ELSE IF Includes(lower, TXT_HDR_ARCHIVAL) THEN [acc EXCEPT !.tier = "archival"]
        ELSE IF m.matched
        THEN LET title == Trim(m.title)
                 entry == [id |-> NodeId(title),
                           title |-> title,
                           keywords |-> ParseKeywords(Trim(m.keywordsStr)),
                           tier |-> acc.tier,
                           filePath |-> Trim(m.filePath),
                           createdAt |-> t,
                           updatedAt |-> t]
             IN  [acc EXCEPT !.index = AddEntry(@, entry)]
        ELSE acc

RECURSIVE ParseRange(_, _, _, _, _, _)
\* The loop over lines[lo], ..., lines[hi], the first half before the second;
\* line k is parsed at the time t + (k - 1) * tick
ParseRange(acc, lines, lo, hi, t, tick) ==
    IF lo > hi THEN acc
    ELSE IF lo = hi THEN ParseLine(acc, lines[lo], t + (lo - 1) * tick)
    ELSE LET mid == (lo + hi) \div 2
             half == ParseRange(acc, lines, lo, mid, t, tick)
         IN  IF half.tier \in Range(Tiers)
             THEN ParseRange(half, lines, mid + 1, hi, t, tick)
             ELSE half

\* for (const line of lines) { ... }: the state after the first i lines
ParseLines(acc, lines, i, t) == ParseRange(acc, lines, 1, i, t, 0)

\* parseMemoryIndexMarkdown(content)
ParseMemoryIndexMarkdown(content, t) ==
    LET lines == Split(content, "\n")
    IN  ParseLines([tier |-> "contextual", index |-> EmptyIndex],
                   lines, Len(lines), t).index

\* The loop with a clock that starts at t and advances by tick between two
\* lines: the state after the first i lines
ParseLinesTicking(acc, lines, i, t, tick) == ParseRange(acc, lines, 1, i, t, tick)

\* parseMemoryIndexMarkdown(content) while the clock advances: each entry
\* gets the Date.now() of its line
ParseMemoryIndexTicking(content, t, tick) ==
    LET lines == Split(content, "\n")
    IN  ParseLinesTicking([tier |-> "contextual", index |-> EmptyIndex],
                          lines, Len(lines), t, tick).index

\* `- [${node.title}](${node.filePath}) - keywords: ${node.keywords.join(", ")}`
EntryLine(node) ==
    TXT_ENTRY_OPEN \o node.title \o TXT_ENTRY_LINK \o node.filePath
        \o TXT_ENTRY_KEYWORDS \o Join(node.keywords, TXT_COMMA_SPACE)

\* Object.values(index.nodes).filter((n) => n.tier === tier)
NodesOfTier(nodes, tier) == SelectSeq(nodes, LAMBDA n : n.tier = tier)

\* `## ${tier.charAt(0).toUpperCase() + tier.slice(1)} Memories`
TierHeader(tier) ==
    LET name == TierChars(tier)
    IN  TXT_H2 \o << UpperChar(name[1]) >> \o Tail(name) \o TXT_MEMORIES

\* The lines serializeMemoryIndexToMarkdown pushes for one tier
TierSection(idx, tier) ==
    LET nodes == NodesOfTier(idx.nodes, tier)
    IN  IF Len(nodes) = 0 THEN << >>
        ELSE << TierHeader(tier), << >> >>
                 \o [i \in 1..Len(nodes) |-> EntryLine(nodes[i])]
                 \o << << >> >>

\* serializeMemoryIndexToMarkdown(index)
SerializeMemoryIndexToMarkdown(idx) ==
    Join(<< TXT_MEMORY_INDEX, << >>, TXT_AUTO_GENERATED, << >> >>
             \o TierSection(idx, Tiers[1])
             \o TierSection(idx, Tiers[2])
             \o TierSection(idx, Tiers[3]),
         NEWLINE)

----------------------------------------------------------------------------
(* Inputs of the memory operations *)

\* An index document edited by hand: mixed-case keywords, an entry written
\* without the dash and with "keyword:"
HandEditedIndex ==
    <<"#","#"," ","C","o","r","e"," ","M","e","m","o","r","i","e","s","\n","-"," ","[",
      "M","a","x","]","(","n","o","d","e","s","/","m","a","x",".","m","d",")"," ","-",
      " ","k","e","y","w","o","r","d","s",":"," ","M","a","x",","," ","D","o","g","\n",
      "\n","#","#"," ","A","r","c","h","i","v","a","l","\n","-","[","O","l","d"," ","N",
      "o","t","e","]","(","n","o","d","e","s","/","o","l","d",".","m","d",")"," ","k",
      "e","y","w","o","r","d",":"," ","X">>

Titles == { <<"M","a","x">>, <<"a"," ","b">>, <<"a","-","b">> }

KeywordLists == { << <<"D","o","g">> >>, << <<"d","o","g">>, <<"P","e","t">> >>, << >> }

CreateTiers == {"core", "contextual"}

Bodies == { <<"x">> }

----------------------------------------------------------------------------
(* Memory operations *)

\* A file whose reading fails with an error other than ENOENT is
\* << content, code >>: fs.readFile rejects with that code.
ReadFails(file) == Len(file) = 2

Unreadable == << << >>, "EACCES" >>

\* loadMemoryIndex(indexPath): null when the file does not exist, the error
\* thrown again when reading failed for another reason
LoadMemoryIndex ==
    /\ index' = IF ReadFails(indexFile) THEN index
                ELSE IF indexFile = NoFile THEN EmptyIndex
                ELSE ParseMemoryIndexMarkdown(indexFile[1], now)
    /\ ret' = IF ReadFails(indexFile)
              THEN [op |-> "loadMemoryIndex", threw |-> indexFile[2]]
              ELSE [op |-> "loadMemoryIndex", found |-> indexFile # NoFile]
    /\ UNCHANGED << now, ticks, tz, indexFile, nodeFiles, created, lookups >>
    /\ UNCHANGED schedVars
    /\ UNCHANGED raceVars

\* NewEntry without keywords.map((k) => k.toLowerCase())
NewEntryRawKeywords(title, keywords, tier, t) ==
    [id |-> NodeId(title),
     title |-> title,
     keywords |-> keywords,
     tier |-> tier,
     filePath |-> NodeFilePath(NodeId(title)),
     createdAt |-> t,
     updatedAt |-> t]

\* The entry createMemoryNode builds
NewEntry(title, keywords, tier, t) ==
    [id |-> NodeId(title),
     title |-> title,
     keywords |-> [i \in 1..Len(keywords) |-> ToLowerCase(keywords[i])],
     tier |-> tier,
     filePath |-> NodeFilePath(NodeId(title)),
     createdAt |-> t,
     updatedAt |-> t]

\* createMemoryNode starting from a stock index when there is no index file
IndexAfterCreateSeeded(file, entry, t) ==
    AddEntry(ParseMemoryIndexMarkdown(IF file = NoFile THEN HandEditedIndex ELSE file[1], t),
             entry)

\* The index createMemoryNode saves: the loaded index (or an empty one) with
\* the new entry put in
IndexAfterCreate(file, entry, t) ==
    AddEntry(IF file = NoFile THEN EmptyIndex ELSE ParseMemoryIndexMarkdown(file[1], t),
             entry)

\* createMemoryNode({workspaceDir, indexPath, title, keywords, content, tier})
CreateMemoryNode(title, keywords, content, tier) ==
    LET entry == NewEntry(title, keywords, tier, now)
        idx == IndexAfterCreate(indexFile, entry, now)
    IN  /\ Len(created) < MaxCreates
        /\ nodeFiles' = (entry.filePath :> [title |-> title, keywords |-> keywords,
                                            created |-> now, content |-> content])
                            @@ nodeFiles
        /\ IF ReadFails(indexFile)
           THEN \* loadMemoryIndex throws after the node document was written
                /\ ret' = [op |-> "createMemoryNode", threw |-> indexFile[2]]
                /\ UNCHANGED << index, indexFile, created >>
           ELSE /\ index' = idx
                /\ indexFile' = << SerializeMemoryIndexToMarkdown(idx) >>
                /\ ret' = [op |-> "createMemoryNode", id |-> entry.id, title |-> title,
                           keywords |-> entry.keywords, tier |-> tier]
                /\ created' = Append(created, [title |-> title, id |-> entry.id,
                                               entry |-> entry])
        /\ UNCHANGED << now, ticks, tz, lookups >>
        /\ UNCHANGED schedVars
        /\ UNCHANGED raceVars

InitMem ==
    /\ indexFile \in {NoFile, << HandEditedIndex >>}
    /\ nodeFiles = << >>
    /\ index = EmptyIndex
    /\ created = << >>
    /\ lookups = 0

----------------------------------------------------------------------------
(* Scheduler state (behaviors.ts) *)

\* An optional value (number | null, or an optional config field) is << >>
\* when null or undefined and << v >> otherwise.
Null == << >>
Undefined == << >>

\* JavaScript truthiness of number | null
Truthy(opt) == opt # Null /\ opt[1] # 0

\* JavaScript ToNumber of number | null, as `now - x` applies it
ToNumber(opt) == IF opt = Null THEN 0 ELSE opt[1]

\* The number of milliseconds in a minute and in an hour
MsPerMinute == 60 * 1000
MsPerHour == 60 * 60 * 1000

\* now - last, in milliseconds, for two instants given in minutes
Since(t, last) == (t - last) * MsPerMinute

\* hours * 60 * 60 * 1000; hours is a fraction [n, d], as 0.5 is [1, 2]
HoursToMs(hours) == (hours.n * MsPerHour) \div hours.d

Hours(n) == [n |-> n, d |-> 1]
HalfAnHour == [n |-> 1, d |-> 2]

DefaultDreamState ==
    [lastDreamAt |-> Null, lastUserActivityAt |-> Null,
     pendingConsolidation |-> << >>, insights |-> << >>]

DefaultResearchState ==
    [lastResearchAt |-> Null, topicsQueue |-> << >>,
     completedTopics |-> << >>, pendingReport |-> Null]

\* A state file whose text is not JSON (JSON.parse throws a SyntaxError)
MalformedJson == [malformed |-> TRUE]

Malformed(file) == file # NoFile /\ "malformed" \in DOMAIN file[1]

\* loadDreamState: JSON.parse of the file; the catch clause returns the default
\* state whatever was thrown, by fs.readFile or by JSON.parse.
\* JSON.stringify followed by JSON.parse gives back a state made of numbers,
\* nulls and string arrays unchanged, so a file holds the state saved.
LoadDreamState(file) ==
    IF file = NoFile \/ Malformed(file) THEN DefaultDreamState ELSE file[1]

\* loadResearchState
LoadResearchState(file) ==
    IF file = NoFile \/ Malformed(file) THEN DefaultResearchState ELSE file[1]

\* formatDate(date): date.toISOString().split("T")[0], the UTC calendar day,
\* here the number of that day
FormatDate(t) == t \div 1440

\* new Date().getHours(): the hour of the day in local time
GetHours(t, offset) == ((t + offset) \div 60) % 24

DEFAULT_DREAM_IDLE_HOURS == 3
DEFAULT_RESEARCH_IDLE_HOURS == 6
DEFAULT_REPORT_HOUR == 8
DREAM_AGAIN_HOURS == 6
RESEARCH_AGAIN_HOURS == 12

\* (params.config?.dreamIdleHours ?? 3) * 60 * 60 * 1000
DreamIdleMs(config) ==
    HoursToMs(IF config.dreamIdleHours = Undefined
              THEN Hours(DEFAULT_DREAM_IDLE_HOURS)
              ELSE config.dreamIdleHours[1])

\* (params.config?.researchIdleHours ?? 6) * 60 * 60 * 1000
ResearchIdleMs(config) ==
    HoursToMs(IF config.researchIdleHours = Undefined
              THEN Hours(DEFAULT_RESEARCH_IDLE_HOURS)
              ELSE config.researchIdleHours[1])

\* shouldDream without the check of lastDreamAt
ShouldDreamIgnoringLastDream(config, state, t) ==
    IF config.dreamModeEnabled = << FALSE >> THEN FALSE
    ELSE IF Truthy(state.lastUserActivityAt)
            /\ Since(t, state.lastUserActivityAt[1]) < DreamIdleMs(config)
    THEN FALSE
    ELSE TRUE

\* shouldDream with <= in place of < in the idle check
ShouldDreamIdleOffByOne(config, state, t) ==
    IF config.dreamModeEnabled = << FALSE >> THEN FALSE
    ELSE IF Truthy(state.lastUserActivityAt)
            /\ Since(t, state.lastUserActivityAt[1]) <= DreamIdleMs(config)
    THEN FALSE
    ELSE IF Truthy(state.lastDreamAt)
            /\ Since(t, state.lastDreamAt[1]) < DREAM_AGAIN_HOURS * MsPerHour
    THEN FALSE
    ELSE TRUE

\* shouldDream({workspaceDir, config}), with the state it loads and Date.now()
ShouldDreamResult(config, state, t) ==
    IF config.dreamModeEnabled = << FALSE >> THEN FALSE
    ELSE IF Truthy(state.lastUserActivityAt)
            /\ Since(t, state.lastUserActivityAt[1]) < DreamIdleMs(config)
    THEN FALSE
    ELSE IF Truthy(state.lastDreamAt)
            /\ Since(t, state.lastDreamAt[1]) < DREAM_AGAIN_HOURS * MsPerHour
    THEN FALSE
    ELSE TRUE

\* shouldResearch with the idle check made on lastDreamAt
ShouldResearchByLastDream(config, state, dreamState, t) ==
    IF config.researchModeEnabled = << FALSE >> THEN FALSE
    ELSE IF Truthy(dreamState.lastDreamAt)
            /\ Since(t, dreamState.lastDreamAt[1]) < ResearchIdleMs(config)
    THEN FALSE
    ELSE IF Truthy(state.lastResearchAt)
            /\ Since(t, state.lastResearchAt[1]) < RESEARCH_AGAIN_HOURS * MsPerHour
    THEN FALSE
    ELSE TRUE

\* shouldResearch({workspaceDir, config}), with the two states it loads
ShouldResearchResult(config, state, dreamState, t) ==
    IF config.researchModeEnabled = << FALSE >> THEN FALSE
    ELSE IF Truthy(dreamState.lastUserActivityAt)
            /\ Since(t, dreamState.lastUserActivityAt[1]) < ResearchIdleMs(config)
    THEN FALSE
    ELSE IF Truthy(state.lastResearchAt)
            /\ Since(t, state.lastResearchAt[1]) < RESEARCH_AGAIN_HOURS * MsPerHour
    THEN FALSE
    ELSE TRUE

----------------------------------------------------------------------------
(* The legacy dream gate and parseDuration *)

DEFAULT_DREAM_EVERY == << "3", "h" >>
DEFAULT_DREAM_MIN_IDLE == 30

DigitValue ==
    ("0" :> 0) @@ ("1" :> 1) @@ ("2" :> 2) @@ ("3" :> 3) @@ ("4" :> 4) @@
    ("5" :> 5) @@ ("6" :> 6) @@ ("7" :> 7) @@ ("8" :> 8) @@ ("9" :> 9)

RECURSIVE ParseInt(_, _)
\* parseInt(digits, 10) of a string of digits; n is its length
ParseInt(digits, n) ==
    IF n = 0 THEN 0 ELSE 10 * ParseInt(digits, n - 1) + DigitValue[digits[n]]

\* The first index j >= i of s that holds no digit; Len(s)+1 if none.
SkipDigits(s, i) ==
    CHOOSE j \in i..(Len(s) + 1) :
        /\ \A k \in i..(j - 1) : s[k] \in Digits
        /\ j = Len(s) + 1 \/ s[j] \notin Digits

\* multipliers[unit] || 0
Multiplier(unit) ==
    CASE unit = << "m", "s" >> -> 1
      [] unit = << "s" >> -> 1000
      [] unit = << "m" >> -> 60 * 1000
      [] unit = << "h" >> -> 60 * 60 * 1000
      [] unit = << "d" >> -> 24 * 60 * 60 * 1000
      [] OTHER -> 0

\* parseDuration falling back to three hours where nothing matches
ParseDurationDefaulting(duration) ==
    LET j == SkipDigits(duration, 1)
        unit == ToLowerCase(SubSeq(duration, j, Len(duration)))
    IN  IF j > 1 /\ unit \in { << "m", "s" >>, << "s" >>, << "m" >>, << "h" >>, << "d" >> }
        THEN ParseInt(SubSeq(duration, 1, j - 1), j - 1) * Multiplier(unit)
        ELSE 3 * 60 * 60 * 1000

\* parseDuration(duration): duration.match(/^(\d+)(ms|s|m|h|d)$/i)
ParseDuration(duration) ==
    LET j == SkipDigits(duration, 1)
        unit == ToLowerCase(SubSeq(duration, j, Len(duration)))
    IN  IF j > 1 /\ unit \in { << "m", "s" >>, << "s" >>, << "m" >>, << "h" >>, << "d" >> }
        THEN ParseInt(SubSeq(duration, 1, j - 1), j - 1) * Multiplier(unit)
        ELSE 0

\* parseDuration(config.every || DEFAULT_DREAM_EVERY)
DreamEveryMs(config) ==
    ParseDuration(IF config.every = Undefined \/ config.every[1] = << >>
                  THEN DEFAULT_DREAM_EVERY
                  ELSE config.every[1])

\* (config.minIdleMinutes || DEFAULT_DREAM_MIN_IDLE) * 60 * 1000
DreamMinIdleMs(config) ==
    (IF config.minIdleMinutes = Undefined \/ config.minIdleMinutes[1] = 0
     THEN DEFAULT_DREAM_MIN_IDLE
     ELSE config.minIdleMinutes[1]) * MsPerMinute

\* shouldDreamLegacy(state, config), with Date.now()
ShouldDreamLegacy(state, config, t) ==
    IF config.enabled # << TRUE >> THEN FALSE
    ELSE IF Truthy(state.lastDreamAt)
            /\ Since(t, state.lastDreamAt[1]) < DreamEveryMs(config)
    THEN FALSE
    ELSE IF Truthy(state.lastUserActivityAt)
            /\ Since(t, state.lastUserActivityAt[1]) < DreamMinIdleMs(config)
    THEN FALSE
    ELSE TRUE

DEFAULT_RESEARCH_EVERY == << "6", "h" >>

\* parseDuration(config.every || DEFAULT_RESEARCH_EVERY)
ResearchEveryMs(config) ==
    ParseDuration(IF config.every = Undefined \/ config.every[1] = << >>
                  THEN DEFAULT_RESEARCH_EVERY
                  ELSE config.every[1])

\* shouldResearchLegacy(state, config), with Date.now()
ShouldResearchLegacy(state, config, t) ==
    IF config.enabled # << TRUE >> THEN FALSE
    ELSE IF Truthy(state.lastResearchAt)
            /\ Since(t, state.lastResearchAt[1]) < ResearchEveryMs(config)
    THEN FALSE
    ELSE TRUE

\* params.config?.morningReportHour ?? 8
ReportHour(config) ==
    IF config.morningReportHour = Undefined THEN DEFAULT_REPORT_HOUR
    ELSE config.morningReportHour[1]

\* fs.access(reportPath) behind a claim: a report another caller is about to
\* record counts as sent
ReportExistsOrBegun(files, date) ==
    date \in DOMAIN files \/ \E q \in DOMAIN procs : procs[q].fired = << date >>

\* fs.access(reportPath) succeeds
ReportExists(files, date) == date \in DOMAIN files

\* shouldSendMorningReport without the check of the hour
ShouldSendAnyHour(config, files, t, offset) ==
    IF config.morningReportEnabled = << FALSE >> THEN FALSE
    ELSE IF ReportExists(files, FormatDate(t)) THEN FALSE
    ELSE TRUE

\* shouldSendMorningReport({workspaceDir, config})
ShouldSendMorningReportResult(config, files, t, offset) ==
    IF config.morningReportEnabled = << FALSE >> THEN FALSE
    ELSE IF GetHours(t, offset) # ReportHour(config) THEN FALSE
    ELSE IF ReportExists(files, FormatDate(t)) THEN FALSE
    ELSE TRUE

----------------------------------------------------------------------------
(* Inputs of the scheduler operations *)

Flags == { Undefined, << TRUE >>, << FALSE >> }

DreamConfigs ==
    [dreamModeEnabled : Flags,
     dreamIdleHours : { Undefined, << HalfAnHour >> }]

ResearchConfigs ==
    [researchModeEnabled : Flags,
     researchIdleHours : { Undefined, << Hours(1) >> }]

LegacyDreamConfigs ==
    [enabled : { Undefined, << TRUE >> },
     every : { Undefined, << <<"3","0","m">> >>, << <<"s","o","o","n">> >> },
     minIdleMinutes : { Undefined, << 60 >> }]

ReportConfigs ==
    [morningReportEnabled : Flags,
     morningReportHour : { Undefined, << 13 >> }]

\* The configurations used where both gates are consulted together
IdleDreamConfigs ==
    [dreamModeEnabled : { Undefined },
     dreamIdleHours : { Undefined, << HalfAnHour >> }]

IdleResearchConfigs ==
    [researchModeEnabled : { Undefined },
     researchIdleHours : { Undefined, << Hours(1) >> }]

\* Interval strings: digits, possibly none or with leading zeros, followed by
\* a unit, a unit in capitals, or something that is no unit; and strings of
\* other shapes
DurationDigits ==
    { << >>, << "3" >>, << "0" >>, << "0", "0", "7" >>, << "2", "0" >> }

DurationUnits ==
    { << "m", "s" >>, << "s" >>, << "m" >>, << "h" >>, << "d" >>, << "H" >>, << "M", "s" >>,
      << >>, << "x" >>, << "h", "r" >>, << " ", "h" >>, << "h", " " >> }

Durations ==
    { digits \o unit : digits \in DurationDigits, unit \in DurationUnits }
        \cup { << "s", "o", "o", "n" >>, << "-", "3", "h" >>, << "3", ".", "5", "h" >>,
               << "h", "3" >>, << " ", "3", "h" >>, << "3", "h", "3", "h" >> }

\* The configurations of the legacy gates: the interval left out, well formed,
\* zero, and not an interval
IntervalConfigs ==
    [enabled : { Undefined, << TRUE >> },
     every : { Undefined, << << "2", "0", "m" >> >>, << << "0", "h" >> >>,
               << << "s", "o", "o", "n" >> >>, << << "2", "0", " ", "m" >> >> }]

LegacyIntervalDreamConfigs ==
    { [enabled |-> c.enabled, every |-> c.every, minIdleMinutes |-> Undefined] :
      c \in IntervalConfigs }

LegacySteps == {10, 60}

\* Clock advances, in minutes
DreamSteps == {1, 29, 360}
ResearchSteps == {1, 59, 360}
IdleSteps == {29, 360}
ReportSteps == {30, 60, 1440}

\* 07:30 UTC on a day well after the epoch
StartTime == 1000 * 1440 + 450

\* UTC, and India Standard Time (UTC+05:30)
TimeZones == {0, 330}

\* State files found in the workspace: none, or ones holding insights and
\* completed topics (the execution engine's results)
DreamFiles ==
    { NoFile,
      << [DefaultDreamState EXCEPT !.insights = << "insight" >>] >>,
      << [DefaultDreamState EXCEPT !.insights = << "i1", "i2", "i3", "i4" >>] >> }

ResearchFiles ==
    { NoFile,
      << [DefaultResearchState EXCEPT
             !.completedTopics = << [topic |-> "tla", completedAt |-> StartTime - 60,
                                     articlesFound |-> 2] >>] >> }

\* A workspace whose states hold every field: a dream and a user activity
\* in the past, a log waiting for consolidation, insights, a topic queued and
\* a topic completed
FullDreamState ==
    [lastDreamAt |-> << StartTime - 120 >>, lastUserActivityAt |-> << StartTime - 30 >>,
     pendingConsolidation |-> << "2024-01-01.md" >>, insights |-> << "i1", "i2" >>]

FullResearchState ==
    [lastResearchAt |-> << StartTime - 90 >>,
     topicsQueue |-> << [topic |-> "tlc", priority |-> 1] >>,
     completedTopics |-> << [topic |-> "tla", completedAt |-> StartTime - 60,
                             articlesFound |-> 2] >>,
     pendingReport |-> Null]

DeliveryDreamFiles == { NoFile, << FullDreamState >> }
DeliveryResearchFiles == { NoFile, << FullResearchState >> }

DeliverySteps == {30}

DeliveryConfigs == { [morningReportEnabled |-> Undefined, morningReportHour |-> Undefined] }

\* The reports saveMorningReport is given, without their date
ReportBodies ==
    { [dreamSummary |-> << "dreamt" >>, researchSummary |-> Undefined,
       pendingQuestions |-> << "q1" >>, suggestedTopics |-> << >>],
      [dreamSummary |-> << "" >>, researchSummary |-> Undefined,
       pendingQuestions |-> << >>, suggestedTopics |-> << >>] }

\* The report dated as formatDate gives the day of t
ReportOf(body, t) ==
    [date |-> FormatDate(t), dreamSummary |-> body.dreamSummary,
     researchSummary |-> body.researchSummary,
     pendingQuestions |-> body.pendingQuestions,
     suggestedTopics |-> body.suggestedTopics]

\* Workspaces with a state file missing, not JSON, or holding every field
FaultDreamFiles == { NoFile, << MalformedJson >>, << FullDreamState >> }
FaultResearchFiles == { NoFile, << MalformedJson >>, << FullResearchState >> }

FaultIndexFiles == { NoFile, Unreadable }

RetrySteps == {30, 1440}

FaultTitles == { <<"M","a","x">> }
FaultKeywordLists == { << <<"d","o","g">>, <<"P","e","t">> >>, << >> }

\* The writes of recordMorningReport: the report file, the research state,
\* the dream state
ReportWrites == 1..3

----------------------------------------------------------------------------
(* Scheduler operations *)

\* Time passes
Tick(d) ==
    /\ ticks < MaxTicks
    /\ now' = now + d
    /\ ticks' = ticks + 1
    /\ ret' = [op |-> "tick"]
    /\ UNCHANGED tz
    /\ UNCHANGED memVars
    /\ UNCHANGED schedVars
    /\ UNCHANGED raceVars

ShouldDream(config) ==
    /\ ret' = [op |-> "shouldDream", config |-> config,
               result |-> ShouldDreamResult(config, LoadDreamState(dreamFile), now)]
    /\ UNCHANGED << now, ticks, tz >>
    /\ UNCHANGED memVars
    /\ UNCHANGED schedVars
    /\ UNCHANGED raceVars

\* shouldDreamLegacy applied to the persisted dream state
ShouldDreamLegacyCall(config) ==
    /\ ret' = [op |-> "shouldDreamLegacy", config |-> config,
               result |-> ShouldDreamLegacy(LoadDreamState(dreamFile), config, now)]
    /\ UNCHANGED << now, ticks, tz >>
    /\ UNCHANGED memVars
    /\ UNCHANGED schedVars
    /\ UNCHANGED raceVars

ShouldResearch(config) ==
    /\ ret' = [op |-> "shouldResearch", config |-> config,
               result |-> ShouldResearchResult(config,
                              LoadResearchState(researchFile),
                              LoadDreamState(dreamFile), now)]
    /\ UNCHANGED << now, ticks, tz >>
    /\ UNCHANGED memVars
    /\ UNCHANGED schedVars
    /\ UNCHANGED raceVars

\* shouldSendMorningReport creating the report file when it answers true
ShouldSendMorningReportMarking(config) ==
    /\ ret' = [op |-> "shouldSendMorningReport", config |-> config,
               result |-> ShouldSendMorningReportResult(config, reportFiles, now, tz)]
    /\ reportFiles' = IF ShouldSendMorningReportResult(config, reportFiles, now, tz)
                      THEN (FormatDate(now) :> [date |-> FormatDate(now)]) @@ reportFiles
                      ELSE reportFiles
    /\ UNCHANGED << now, ticks, tz, dreamFile, researchFile, activityAt, reported,
                    cleared >>
    /\ UNCHANGED memVars
    /\ UNCHANGED raceVars

\* shouldSendMorningReport({workspaceDir, config})
ShouldSendMorningReport(config) ==
    /\ ret' = [op |-> "shouldSendMorningReport", config |-> config,
               result |-> ShouldSendMorningReportResult(config, reportFiles, now, tz)]
    /\ UNCHANGED << now, ticks, tz >>
    /\ UNCHANGED memVars
    /\ UNCHANGED schedVars
    /\ UNCHANGED raceVars

\* shouldResearchLegacy applied to the persisted research state
ShouldResearchLegacyCall(config) ==
    /\ ret' = [op |-> "shouldResearchLegacy", config |-> config,
               result |-> ShouldResearchLegacy(LoadResearchState(researchFile), config, now)]
    /\ UNCHANGED << now, ticks, tz >>
    /\ UNCHANGED memVars
    /\ UNCHANGED schedVars
    /\ UNCHANGED raceVars

\* parseDuration(duration)
ParseDurationCall(duration) ==
    /\ ret' = [op |-> "parseDuration", duration |-> duration,
               result |-> ParseDuration(duration)]
    /\ UNCHANGED << now, ticks, tz >>
    /\ UNCHANGED memVars
    /\ UNCHANGED schedVars
    /\ UNCHANGED raceVars

\* recordActivity saving no pending consolidation
ActivityRecordedDroppingPending(state, t) ==
    [state EXCEPT !.lastUserActivityAt = << t >>, !.pendingConsolidation = << >>]

\* The state recordActivity saves
ActivityRecorded(state, t) == [state EXCEPT !.lastUserActivityAt = << t >>]

\* recordDream saving a fresh state in place of the loaded one
DreamRecordedFresh(state, t) == [DefaultDreamState EXCEPT !.lastDreamAt = << t >>]

\* The state recordDream saves
DreamRecorded(state, t) == [state EXCEPT !.lastDreamAt = << t >>]

\* recordResearch saving no completed topic
ResearchRecordedTrimmed(state, t) ==
    [state EXCEPT !.lastResearchAt = << t >>, !.completedTopics = << >>]

\* The state recordResearch saves
ResearchRecorded(state, t) == [state EXCEPT !.lastResearchAt = << t >>]

\* recordActivity({workspaceDir})
RecordActivity ==
    /\ dreamFile' = << ActivityRecorded(LoadDreamState(dreamFile), now) >>
    /\ activityAt' = << now >>
    /\ ret' = [op |-> "recordActivity"]
    /\ UNCHANGED << now, ticks, tz, researchFile, reportFiles, reported, cleared >>
    /\ UNCHANGED memVars
    /\ UNCHANGED raceVars

\* recordDream({workspaceDir})
RecordDream ==
    /\ dreamFile' = << DreamRecorded(LoadDreamState(dreamFile), now) >>
    /\ ret' = [op |-> "recordDream"]
    /\ UNCHANGED << now, ticks, tz, researchFile, reportFiles, activityAt, reported, cleared >>
    /\ UNCHANGED memVars
    /\ UNCHANGED raceVars

\* recordResearch({workspaceDir})
RecordResearch ==
    /\ researchFile' = << ResearchRecorded(LoadResearchState(researchFile), now) >>
    /\ ret' = [op |-> "recordResearch"]
    /\ UNCHANGED << now, ticks, tz, dreamFile, reportFiles, activityAt, reported, cleared >>
    /\ UNCHANGED memVars
    /\ UNCHANGED raceVars

\* recordMorningReport naming the file after the day before
ReportRecordedYesterday(files, t) ==
    ((FormatDate(t) - 1) :> [date |-> FormatDate(t) - 1, sentAt |-> t]) @@ files

\* The report files after recordMorningReport wrote
\* `# Morning Report - ${formatDate(now)}\n\nSent at ${now.toISOString()}\n`
ReportRecorded(files, t) ==
    (FormatDate(t) :> [date |-> FormatDate(t), sentAt |-> t]) @@ files

\* recordMorningReport emptying the queue as well
TopicsAndQueueCleared(state) ==
    [state EXCEPT !.completedTopics = << >>, !.topicsQueue = << >>]

\* researchState.completedTopics = []
TopicsCleared(state) == [state EXCEPT !.completedTopics = << >>]

\* recordMorningReport saving the dream state as it loaded it
InsightsKept(state) == state

\* dreamState.insights = []
InsightsCleared(state) == [state EXCEPT !.insights = << >>]

\* researchState.completedTopics.map((t) => `- ${t.topic}`)
TopicLines(state) == [i \in 1..Len(state.completedTopics) |-> state.completedTopics[i].topic]

\* dreamState.insights.slice(0, 3).map((i) => `- ${i}`)
InsightLines(state) == SubSeq(state.insights, 1, IF Len(state.insights) < 3
                                                  THEN Len(state.insights) ELSE 3)

\* The text generateMorningReportMessage returns, as the bullet lines of its
\* two sections (a section with no line is left out); null when both are empty
MorningReportMessage(researchState, dreamState) ==
    IF Len(researchState.completedTopics) = 0 /\ Len(dreamState.insights) = 0
    THEN Null
    ELSE << [count |-> Len(researchState.completedTopics),
             topics |-> TopicLines(researchState),
             insights |-> InsightLines(dreamState)] >>

\* generateMorningReportMessage({workspaceDir, config})
GenerateMorningReportMessage ==
    /\ ret' = [op |-> "generateMorningReportMessage",
               message |-> MorningReportMessage(LoadResearchState(researchFile),
                                                LoadDreamState(dreamFile))]
    /\ UNCHANGED << now, ticks, tz >>
    /\ UNCHANGED memVars
    /\ UNCHANGED schedVars
    /\ UNCHANGED raceVars

\* recordMorningReport({workspaceDir})
RecordMorningReport ==
    /\ reportFiles' = ReportRecorded(reportFiles, now)
    /\ researchFile' = << TopicsCleared(LoadResearchState(researchFile)) >>
    /\ dreamFile' = << InsightsCleared(LoadDreamState(dreamFile)) >>
    /\ reported' = reported \cup {FormatDate(now)}
    /\ cleared' = [topics |-> Range(TopicLines(LoadResearchState(researchFile))),
                   insights |-> Range(LoadDreamState(dreamFile).insights)]
    /\ ret' = [op |-> "recordMorningReport", date |-> FormatDate(now)]
    /\ UNCHANGED << now, ticks, tz, activityAt >>
    /\ UNCHANGED memVars
    /\ UNCHANGED raceVars

\* loadDreamState(workspaceDir)
LoadDreamStateCall ==
    /\ ret' = [op |-> "loadDreamState", state |-> LoadDreamState(dreamFile)]
    /\ UNCHANGED << now, ticks, tz >>
    /\ UNCHANGED memVars
    /\ UNCHANGED schedVars
    /\ UNCHANGED raceVars

\* loadResearchState(workspaceDir)
LoadResearchStateCall ==
    /\ ret' = [op |-> "loadResearchState", state |-> LoadResearchState(researchFile)]
    /\ UNCHANGED << now, ticks, tz >>
    /\ UNCHANGED memVars
    /\ UNCHANGED schedVars
    /\ UNCHANGED raceVars

\* JavaScript truthiness of string | undefined
TruthyText(opt) == opt # Undefined /\ opt[1] # ""

\* generateMorningReportMessageLegacy(report): the sections pushed, each with
\* its heading and its lines
LegacySections(report) ==
    (IF TruthyText(report.dreamSummary)
     THEN << [heading |-> "Dream Mode Reflections",
              lines |-> << report.dreamSummary[1] >>] >>
     ELSE << >>)
    \o (IF TruthyText(report.researchSummary)
        THEN << [heading |-> "Research Findings",
                 lines |-> << report.researchSummary[1] >>] >>
        ELSE << >>)
    \o (IF Len(report.pendingQuestions) > 0
        THEN << [heading |-> "Questions for You", lines |-> report.pendingQuestions] >>
        ELSE << >>)
    \o (IF Len(report.suggestedTopics) > 0
        THEN << [heading |-> "Topics to Explore", lines |-> report.suggestedTopics] >>
        ELSE << >>)

\* The report files after saveMorningReport wrote
\* `# Morning Report - ${report.date}`, "", and the legacy message
ReportSaved(files, report) ==
    (report.date :> [date |-> report.date, sections |-> LegacySections(report)]) @@ files

\* saveMorningReport(workspaceDir, report)
SaveMorningReport(report) ==
    /\ reportFiles' = ReportSaved(reportFiles, report)
    /\ ret' = [op |-> "saveMorningReport", report |-> report]
    /\ UNCHANGED << now, ticks, tz, dreamFile, researchFile, activityAt, reported,
                    cleared >>
    /\ UNCHANGED memVars
    /\ UNCHANGED raceVars

\* What a write that failed leaves of a file: fs.writeFile opens the file
\* truncating it and then writes, so the file is as it was when opening failed
\* and holds a cut document when writing failed.
WriteOutcomes == {"untouched", "cut"}

\* A report file cut short
CutReport(t) == [date |-> FormatDate(t), cut |-> TRUE]

\* recordMorningReport({workspaceDir}) with its k-th write throwing: the writes
\* before it are made, the k-th leaves its file untouched or cut, the ones
\* after it are not reached
RecordMorningReportFailing(k, outcome) ==
    /\ reportFiles' = IF k > 1 THEN ReportRecorded(reportFiles, now)
                      ELSE IF outcome = "cut"
                      THEN (FormatDate(now) :> CutReport(now)) @@ reportFiles
                      ELSE reportFiles
    /\ researchFile' = IF k > 2 THEN << TopicsCleared(LoadResearchState(researchFile)) >>
                       ELSE IF k = 2 /\ outcome = "cut" THEN << MalformedJson >>
                       ELSE researchFile
    /\ dreamFile' = IF k = 3 /\ outcome = "cut" THEN << MalformedJson >> ELSE dreamFile
    /\ interrupted' = << [write |-> k, outcome |-> outcome, at |-> now,
                          before |-> [reportFiles |-> reportFiles,
                                      researchFile |-> researchFile,
                                      dreamFile |-> dreamFile],
                          after |-> [reportFiles |-> reportFiles',
                                     researchFile |-> researchFile',
                                     dreamFile |-> dreamFile']] >>
    /\ ret' = [op |-> "recordMorningReport", threw |-> k]
    /\ UNCHANGED << now, ticks, tz, activityAt, reported, cleared >>
    /\ UNCHANGED memVars
    /\ UNCHANGED << procs, dreamVersion, overwrote >>

----------------------------------------------------------------------------
(* The operations of concurrent callers, one action per step between awaits *)

\* Two callers on one workspace
Procs == {1, 2}

\* What a caller runs: a recorder, or a scheduler evaluation of the morning
\* report (shouldSendMorningReport, then recordMorningReport when it was true)
RaceOps == {"recordActivity", "recordDream", "morningReport"}

RaceSteps == {30}

RaceReportConfigs == { [morningReportEnabled |-> Undefined, morningReportHour |-> Undefined] }

IdleProc ==
    [op |-> "none", pc |-> "idle", copy |-> << >>, version |-> 0, calls |-> 0,
     fired |-> Null]

\* The caller's copy of the dream state after its assignment
DreamStateMutated(op, state, t) ==
    IF op = "recordActivity" THEN ActivityRecorded(state, t)
    ELSE IF op = "recordDream" THEN DreamRecorded(state, t)
    ELSE InsightsCleared(state)

\* The caller enters the operation
StartCall(p, op) ==
    /\ procs[p].pc = "idle"
    /\ procs[p].calls < MaxCalls
    /\ procs' = [procs EXCEPT ![p] = [@ EXCEPT !.op = op, !.copy = << >>,
                     !.fired = Null,
                     !.pc = IF op = "morningReport" THEN "check" ELSE "loadDream"]]
    /\ ret' = [op |-> "start", proc |-> p]
    /\ UNCHANGED << now, ticks, tz, dreamVersion, overwrote, interrupted >>
    /\ UNCHANGED memVars
    /\ UNCHANGED schedVars

\* shouldSendMorningReport: the fs.access of the report file
CheckReport(p, config) ==
    LET result == ShouldSendMorningReportResult(config, reportFiles, now, tz)
    IN  /\ procs[p].pc = "check"
        /\ procs' = [procs EXCEPT ![p] =
                        IF result
                        THEN [@ EXCEPT !.pc = "writeReport", !.fired = << FormatDate(now) >>]
                        ELSE [@ EXCEPT !.pc = "idle", !.calls = @ + 1]]
        /\ ret' = [op |-> "shouldSendMorningReport", config |-> config,
                   result |-> result, proc |-> p]
        /\ UNCHANGED << now, ticks, tz, dreamVersion, overwrote, interrupted >>
        /\ UNCHANGED memVars
        /\ UNCHANGED schedVars

\* recordMorningReport: fs.writeFile(reportPath, ...)
WriteReportFile(p) ==
    /\ procs[p].pc = "writeReport"
    /\ reportFiles' = ReportRecorded(reportFiles, now)
    /\ procs' = [procs EXCEPT ![p] = [@ EXCEPT !.pc = "loadResearch",
                                                 !.fired = << FormatDate(now) >>]]
    /\ ret' = [op |-> "writeReportFile", proc |-> p]
    /\ UNCHANGED << now, ticks, tz, dreamVersion, overwrote, interrupted >>
    /\ UNCHANGED memVars
    /\ UNCHANGED << dreamFile, researchFile, activityAt, reported, cleared >>

\* recordMorningReport: loadResearchState, completedTopics = []
LoadResearchStep(p) ==
    /\ procs[p].pc = "loadResearch"
    /\ procs' = [procs EXCEPT ![p] = [@ EXCEPT !.pc = "saveResearch",
                     !.copy = << TopicsCleared(LoadResearchState(researchFile)) >>]]
    /\ cleared' = [cleared EXCEPT
                      !.topics = Range(TopicLines(LoadResearchState(researchFile)))]
    /\ ret' = [op |-> "loadResearchState", proc |-> p]
    /\ UNCHANGED << now, ticks, tz, dreamVersion, overwrote, interrupted >>
    /\ UNCHANGED memVars
    /\ UNCHANGED << dreamFile, researchFile, reportFiles, activityAt, reported >>

\* recordMorningReport: saveResearchState
SaveResearchStep(p) ==
    /\ procs[p].pc = "saveResearch"
    /\ researchFile' = procs[p].copy
    /\ procs' = [procs EXCEPT ![p] = [@ EXCEPT !.pc = "loadDream", !.copy = << >>]]
    /\ ret' = [op |-> "saveResearchState", proc |-> p]
    /\ UNCHANGED << now, ticks, tz, dreamVersion, overwrote, interrupted >>
    /\ UNCHANGED memVars
    /\ UNCHANGED << dreamFile, reportFiles, activityAt, reported, cleared >>

\* loadDreamState, then the assignment made to the loaded state
LoadDreamStep(p) ==
    /\ procs[p].pc = "loadDream"
    /\ procs' = [procs EXCEPT ![p] = [@ EXCEPT !.pc = "saveDream",
                     !.version = dreamVersion,
                     !.copy = << DreamStateMutated(procs[p].op,
                                                   LoadDreamState(dreamFile), now) >>]]
    /\ cleared' = IF procs[p].op = "morningReport"
                  THEN [cleared EXCEPT !.insights = Range(LoadDreamState(dreamFile).insights)]
                  ELSE cleared
    /\ ret' = [op |-> "loadDreamState", proc |-> p]
    /\ UNCHANGED << now, ticks, tz, dreamVersion, overwrote, interrupted >>
    /\ UNCHANGED memVars
    /\ UNCHANGED << dreamFile, researchFile, reportFiles, activityAt, reported >>

\* saveDreamState: the operation completes
SaveDreamStep(p) ==
    /\ procs[p].pc = "saveDream"
    /\ dreamFile' = procs[p].copy
    /\ dreamVersion' = dreamVersion + 1
    /\ overwrote' = (overwrote \/ procs[p].version < dreamVersion)
    /\ activityAt' = IF procs[p].op = "recordActivity"
                     THEN procs[p].copy[1].lastUserActivityAt ELSE activityAt
    /\ reported' = IF procs[p].op = "morningReport"
                   THEN reported \cup {procs[p].fired[1]} ELSE reported
    /\ procs' = [procs EXCEPT ![p] = [@ EXCEPT !.pc = "idle", !.copy = << >>,
                                                 !.calls = @ + 1]]
    /\ ret' = [op |-> IF procs[p].op = "morningReport" THEN "recordMorningReport"
                      ELSE procs[p].op,
               proc |-> p]
    /\ UNCHANGED << now, ticks, tz, interrupted >>
    /\ UNCHANGED memVars
    /\ UNCHANGED << researchFile, reportFiles, cleared >>

----------------------------------------------------------------------------
(* Memory injection: keyword extraction and matching (core-memory.ts) *)

\* \w of a regular expression
WordChars ==
    LowerLetters \cup DOMAIN LowerCaseMap \cup Digits \cup {"_"}

\* String.prototype.includes
Contains(s, sub) == Len(sub) = 0 \/ Includes(s, sub)

\* replace(/[^\w\s]/g, " ")
ReplacePunctuation(s) ==
    [i \in 1..Len(s) |-> IF s[i] \in WordChars \cup WhiteSpace THEN s[i] ELSE " "] \o << >>

\* The first index j >= i of s that holds white space; Len(s)+1 if none.
FindWs(s, i) ==
    LET hits == {j \in i..Len(s) : s[j] \in WhiteSpace}
    IN  IF hits = {} THEN Len(s) + 1 ELSE Least(hits)

\* split(/\s+/) of s from index i on
RECURSIVE SplitWs(_, _)
SplitWs(s, i) ==
    LET j == FindWs(s, i)
    IN  IF j > Len(s) THEN << SubSeq(s, i, Len(s)) >>
        ELSE << SubSeq(s, i, j - 1) >> \o SplitWs(s, SkipWs(s, j))

\* The filter keeping the words of two characters too
RECURSIVE LongWordsFromTwo(_, _)
LongWordsFromTwo(words, i) ==
    IF i > Len(words) THEN << >>
    ELSE (IF Len(words[i]) > 1 THEN << words[i] >> ELSE << >>)
             \o LongWordsFromTwo(words, i + 1)

\* filter((w) => w.length > 2)
RECURSIVE LongWords(_, _)
LongWords(words, i) ==
    IF i > Len(words) THEN << >>
    ELSE (IF Len(words[i]) > 2 THEN << words[i] >> ELSE << >>) \o LongWords(words, i + 1)

\* The phrases of two and three consecutive words, in the order of the loop
RECURSIVE Phrases(_, _)
Phrases(wordList, i) ==
    IF i > Len(wordList) - 1 THEN << >>
    ELSE << wordList[i] \o << " " >> \o wordList[i + 1] >>
         \o (IF i < Len(wordList) - 1
             THEN << wordList[i] \o << " " >> \o wordList[i + 1] \o << " " >> \o wordList[i + 2] >>
             ELSE << >>)
         \o Phrases(wordList, i + 1)

\* Every occurrence kept
UniqueNot(items) == items

\* [...new Set(items)]: the first occurrence of each item, in order
Unique(items) ==
    LET firsts == {i \in 1..Len(items) : \A k \in 1..(i - 1) : items[k] # items[i]}
        kept == SelectSeq([i \in 1..Len(items) |-> i] \o << >>, LAMBDA i : i \in firsts)
    IN  [k \in 1..Len(kept) |-> items[kept[k]]] \o << >>

\* extractKeywordsFromContext(text)
ExtractKeywordsFromContext(text) ==
    LET words == LongWords(SplitWs(ReplacePunctuation(ToLowerCase(text)), 1), 1)
    IN  Unique(words \o Phrases(words, 1))

\* Every tier taken as requested
TierRequestedAlways(tiers, tier) == TRUE

\* tiers.includes(tier)
TierRequested(tiers, tier) == tier \in Range(tiers)

\* Array.prototype.flat of the first i sequences of seqs
RECURSIVE Flat(_, _)
Flat(seqs, i) == IF i = 0 THEN << >> ELSE Flat(seqs, i - 1) \o seqs[i]

\* for (const nodeId of nodeIds): a hit for each id whose node exists in a
\* requested tier; keyword is what the hit pushes to matchedKeywords
HitsOfIds(idx, tiers, nodeIds, keyword) ==
    LET taken == SelectSeq(nodeIds,
                           LAMBDA id : /\ HasNode(idx.nodes, id)
                                       /\ TierRequested(tiers, NodeOf(idx.nodes, id).tier))
    IN  [i \in 1..Len(taken) |-> [id |-> taken[i], keyword |-> keyword]] \o << >>

\* The partial match in one direction only: indexKeyword.includes(keyword)
PartialHitsOneWay(idx, tiers, keyword, j) ==
    LET indexKeyword == idx.keywordMap[j].keyword
    IN  IF Contains(indexKeyword, keyword)
        THEN HitsOfIds(idx, tiers, idx.keywordMap[j].ids, indexKeyword)
        ELSE << >>

\* One round of for (const [indexKeyword, nodeIds] of
\* Object.entries(index.keywordMap)): the hits of the j-th entry of the map
PartialHits(idx, tiers, keyword, j) ==
    LET indexKeyword == idx.keywordMap[j].keyword
    IN  IF \/ Contains(indexKeyword, keyword)
           \/ Contains(keyword, indexKeyword)
        THEN HitsOfIds(idx, tiers, idx.keywordMap[j].ids, indexKeyword)
        ELSE << >>

\* One round of for (const keyword of keywords): the hits of the exact
\* lookup, then those of the partial matches in the order of the map
KeywordHits(idx, tiers, keyword) ==
    HitsOfIds(idx, tiers, IdsOf(idx.keywordMap, keyword), keyword)
        \o Flat([j \in 1..Len(idx.keywordMap) |-> PartialHits(idx, tiers, keyword, j)],
                Len(idx.keywordMap))

\* The core nodes taken only when they also match a keyword
CoreIdsNone(nodes, tiers, i) == << >>

\* The ids of the core nodes, when core is requested
RECURSIVE CoreIds(_, _, _)
CoreIds(nodes, tiers, i) ==
    IF ~TierRequested(tiers, "core") \/ i > Len(nodes) THEN << >>
    ELSE (IF nodes[i].tier = "core" THEN << nodes[i].id >> ELSE << >>)
         \o CoreIds(nodes, tiers, i + 1)

\* findMatchingNodes(index, keywords, tiers): matchedNodeIds is a Set and
\* matchedKeywords is pushed to only when it lacks the keyword, so both hold
\* the first occurrences in the order of the hits
FindMatchingNodes(idx, keywords, tiers) ==
    LET hits == Flat([k \in 1..Len(keywords) |-> KeywordHits(idx, tiers, keywords[k])],
                     Len(keywords))
        ids == Unique(CoreIds(idx.nodes, tiers, 1)
                          \o ([h \in 1..Len(hits) |-> hits[h].id] \o << >>))
    IN  [entries |-> [i \in 1..Len(ids) |-> NodeOf(idx.nodes, ids[i])] \o << >>,
         matchedKeywords |-> Unique([h \in 1..Len(hits) |-> hits[h].keyword] \o << >>)]

----------------------------------------------------------------------------
(* Memory injection: loading nodes under the budget (core-memory.ts) *)

DEFAULT_MAX_TOKENS == 4000
CHARS_PER_TOKEN == 4
DEFAULT_TIERS == << "core", "contextual" >>

\* The length of the text of a node document.  A document createMemoryNode
\* wrote is kept as its parts: "# title", "", "> Keywords: k1, k2",
\* "> Created: <24 characters>", "", content, joined by "\n".  A document that
\* was in the workspace before is kept as its length.
NodeFileLength(file) ==
    IF "chars" \in DOMAIN file THEN file.chars
    ELSE (2 + Len(file.title)) + 1 + 1 + (12 + Len(Join(file.keywords, TXT_COMMA_SPACE)))
         + 1 + (11 + 24) + 1 + 1 + Len(file.content)

\* loadMemoryNode giving an empty node for a missing file
LoadMemoryNodeOrEmpty(files, entry) ==
    << [id |-> entry.id, title |-> entry.title, keywords |-> entry.keywords,
        tier |-> entry.tier,
        contentLength |-> IF entry.filePath \in DOMAIN files
                          THEN NodeFileLength(files[entry.filePath]) ELSE 0,
        createdAt |-> entry.createdAt, updatedAt |-> entry.updatedAt] >>

\* loadMemoryNode(workspaceDir, entry): null when the file does not exist;
\* content is kept as its length
LoadMemoryNode(files, entry) ==
    IF entry.filePath \notin DOMAIN files THEN Null
    ELSE << [id |-> entry.id, title |-> entry.title, keywords |-> entry.keywords,
             tier |-> entry.tier, contentLength |-> NodeFileLength(files[entry.filePath]),
             createdAt |-> entry.createdAt, updatedAt |-> entry.updatedAt] >>

\* const tierOrder = { core: 0, contextual: 1, archival: 2 }
TierOrder(tier) == IF tier = "core" THEN 0 ELSE IF tier = "contextual" THEN 1 ELSE 2

\* The comparator with the oldest update first
CompareEntriesOldestFirst(a, b) ==
    IF TierOrder(a.tier) - TierOrder(b.tier) # 0
    THEN TierOrder(a.tier) - TierOrder(b.tier)
    ELSE a.updatedAt - b.updatedAt

\* The comparator of the sort
CompareEntries(a, b) ==
    IF TierOrder(a.tier) - TierOrder(b.tier) # 0
    THEN TierOrder(a.tier) - TierOrder(b.tier)
    ELSE b.updatedAt - a.updatedAt

\* e put into the sorted list behind every element that does not sort after it
InsertEntry(sorted, e) ==
    LET later == {i \in 1..Len(sorted) : CompareEntries(sorted[i], e) > 0}
        at == IF later = {} THEN Len(sorted) + 1
              ELSE CHOOSE i \in later : \A j \in later : i <= j
    IN  SubSeq(sorted, 1, at - 1) \o << e >> \o SubSeq(sorted, at, Len(sorted))

\* entries.sort(comparator): Array.prototype.sort is stable
RECURSIVE SortEntries(_, _, _)
SortEntries(entries, i, sorted) ==
    IF i > Len(entries) THEN sorted
    ELSE SortEntries(entries, i + 1, InsertEntry(sorted, entries[i]))

\* The loop with continue in place of break: a node that does not fit is
\* passed over and the ones behind it are still tried
RECURSIVE LoadUnderBudgetSkipping(_, _, _, _, _)
LoadUnderBudgetSkipping(acc, sortedEntries, i, files, maxChars) ==
    IF i > Len(sortedEntries) THEN acc
    ELSE LET node == LoadMemoryNode(files, sortedEntries[i])
         IN  IF node = Null
             THEN LoadUnderBudgetSkipping(acc, sortedEntries, i + 1, files, maxChars)
             ELSE IF /\ acc.totalChars + node[1].contentLength > maxChars
                     /\ Len(acc.nodes) > 0
             THEN LoadUnderBudgetSkipping(acc, sortedEntries, i + 1, files, maxChars)
             ELSE LoadUnderBudgetSkipping(
                      [nodes |-> Append(acc.nodes, node[1]),
                       totalChars |-> acc.totalChars + node[1].contentLength],
                      sortedEntries, i + 1, files, maxChars)

\* The loop without the exemption of the first node
RECURSIVE LoadUnderBudgetStrict(_, _, _, _, _)
LoadUnderBudgetStrict(acc, sortedEntries, i, files, maxChars) ==
    IF i > Len(sortedEntries) THEN acc
    ELSE LET node == LoadMemoryNode(files, sortedEntries[i])
         IN  IF node = Null
             THEN LoadUnderBudgetStrict(acc, sortedEntries, i + 1, files, maxChars)
             ELSE IF acc.totalChars + node[1].contentLength > maxChars
             THEN acc
             ELSE LoadUnderBudgetStrict(
                      [nodes |-> Append(acc.nodes, node[1]),
                       totalChars |-> acc.totalChars + node[1].contentLength],
                      sortedEntries, i + 1, files, maxChars)

\* for (const entry of sortedEntries): a missing file is skipped, the loop ends
\* at the first node that does not fit beside the ones taken
RECURSIVE LoadUnderBudget(_, _, _, _, _)
LoadUnderBudget(acc, sortedEntries, i, files, maxChars) ==
    IF i > Len(sortedEntries) THEN acc
    ELSE LET node == LoadMemoryNode(files, sortedEntries[i])
         IN  IF node = Null
             THEN LoadUnderBudget(acc, sortedEntries, i + 1, files, maxChars)
             ELSE IF /\ acc.totalChars + node[1].contentLength > maxChars
                     /\ Len(acc.nodes) > 0
             THEN acc
             ELSE LoadUnderBudget([nodes |-> Append(acc.nodes, node[1]),
                                   totalChars |-> acc.totalChars + node[1].contentLength],
                                  sortedEntries, i + 1, files, maxChars)

\* Math.floor in place of Math.ceil
TotalTokensRoundedDown(totalChars) == totalChars \div CHARS_PER_TOKEN

\* Math.ceil(totalChars / CHARS_PER_TOKEN)
TotalTokens(totalChars) ==
    (totalChars + CHARS_PER_TOKEN - 1) \div CHARS_PER_TOKEN

NotInjected == [injected |-> FALSE, nodes |-> << >>, totalTokens |-> 0,
                matchedKeywords |-> << >>]

\* config.maxTokens || DEFAULT_MAX_TOKENS
MaxTokensOf(config) ==
    IF Truthy(config.maxTokens) THEN config.maxTokens[1] ELSE DEFAULT_MAX_TOKENS

\* config.tiers || DEFAULT_TIERS
TiersOf(config) == IF config.tiers = Undefined THEN DEFAULT_TIERS ELSE config.tiers[1]

\* [...new Set([...contextKeywords, ...(config.coreKeywords || [])])]
AllKeywords(context, config) ==
    Unique(ExtractKeywordsFromContext(context)
               \o (IF config.coreKeywords = Undefined THEN << >>
                   ELSE config.coreKeywords[1]))

\* The entries injectMemories loads, in the order it loads them
SortedEntries(idx, context, config) ==
    SortEntries(FindMatchingNodes(idx, AllKeywords(context, config), TiersOf(config)).entries,
                1, << >>)

\* What injectMemories returns for the index it loaded (idx; missing: found
\* is false)
InjectResult(found, idx, files, context, config) ==
    IF ~found \/ Len(idx.nodes) = 0 THEN NotInjected
    ELSE LET match == FindMatchingNodes(idx, AllKeywords(context, config), TiersOf(config))
         IN  IF Len(match.entries) = 0 THEN NotInjected
             ELSE LET acc == LoadUnderBudget([nodes |-> << >>, totalChars |-> 0],
                                             SortEntries(match.entries, 1, << >>), 1,
                                             files, MaxTokensOf(config) * CHARS_PER_TOKEN)
                  IN  [injected |-> Len(acc.nodes) > 0,
                       nodes |-> acc.nodes,
                       totalTokens |-> TotalTokens(acc.totalChars),
                       matchedKeywords |-> match.matchedKeywords]

\* injectMemories({workspaceDir, conversationContext, config}); tick is how
\* much the clock advances between two lines of the parse
InjectMemories(context, config, tick) ==
    LET idx == IF indexFile = NoFile THEN EmptyIndex
               ELSE ParseMemoryIndexTicking(indexFile[1], now, tick)
    IN  /\ lookups < MaxLookups
        /\ index' = idx
        /\ ret' = [op |-> "injectMemories", context |-> context, config |-> config,
                   found |-> indexFile # NoFile,
                   result |-> InjectResult(indexFile # NoFile, idx, nodeFiles,
                                           context, config)]
        /\ lookups' = lookups + 1
        /\ UNCHANGED << now, ticks, tz, indexFile, nodeFiles, created >>
        /\ UNCHANGED schedVars
        /\ UNCHANGED raceVars

\* findMatchingNodes(index, keywords, tiers) on the index last loaded
FindMatchingNodesCall(keywords, tiers) ==
    /\ lookups < MaxLookups
    /\ lookups' = lookups + 1
    /\ ret' = [op |-> "findMatchingNodes", keywords |-> keywords, tiers |-> tiers,
               result |-> FindMatchingNodes(index, keywords, tiers)]
    /\ UNCHANGED << now, ticks, tz, indexFile, nodeFiles, index, created >>
    /\ UNCHANGED schedVars
    /\ UNCHANGED raceVars

\* extractKeywordsFromContext(text), as injectMemories calls it on the
\* conversation context
ExtractKeywords(text) ==
    /\ lookups < MaxLookups
    /\ lookups' = lookups + 1
    /\ ret' = [op |-> "extractKeywordsFromContext", text |-> text,
               keywords |-> ExtractKeywordsFromContext(text)]
    /\ UNCHANGED << now, ticks, tz, indexFile, nodeFiles, index, created >>
    /\ UNCHANGED schedVars
    /\ UNCHANGED raceVars

----------------------------------------------------------------------------
(* Inputs of the memory injection *)

\* An index document with no entry
HeaderOnlyIndex ==
    <<"#"," ","M","e","m","o","r","y"," ","I","n","d","e","x","\n","\n",">"," ","A","u",
      "t","o","-","g","e","n","e","r","a","t","e","d"," ","b","y"," ","C","o","r","e",
      " ","M","e","m","o","r","y"," ","S","y","s","t","e","m","."," ","E","d","i","t",
      " ","w","i","t","h"," ","c","a","r","e",".","\n">>

\* A core node, and a contextual node with the keywords dog, pet
TwoNodeIndex ==
    <<"#"," ","M","e","m","o","r","y"," ","I","n","d","e","x","\n","\n","#","#"," ","C",
      "o","r","e"," ","M","e","m","o","r","i","e","s","\n","\n","-"," ","[","I","d","e",
      "n","t","i","t","y","]","(","m","e","m","o","r","y","/","n","o","d","e","s","/",
      "i","d","e","n","t","i","t","y",".","m","d",")"," ","-"," ","k","e","y","w","o",
      "r","d","s",":"," ","n","a","m","e",","," ","i","d","e","n","t","i","t","y","\n",
      "\n","#","#"," ","C","o","n","t","e","x","t","u","a","l"," ","M","e","m","o","r",
      "i","e","s","\n","\n","-"," ","[","M","a","x","]","(","m","e","m","o","r","y","/",
      "n","o","d","e","s","/","m","a","x",".","m","d",")"," ","-"," ","k","e","y","w",
      "o","r","d","s",":"," ","d","o","g",","," ","p","e","t","\n">>

\* The same with a second contextual node and an archival node
FourNodeIndex ==
    <<"#"," ","M","e","m","o","r","y"," ","I","n","d","e","x","\n","\n","#","#"," ","C",
      "o","r","e"," ","M","e","m","o","r","i","e","s","\n","\n","-"," ","[","I","d","e",
      "n","t","i","t","y","]","(","m","e","m","o","r","y","/","n","o","d","e","s","/",
      "i","d","e","n","t","i","t","y",".","m","d",")"," ","-"," ","k","e","y","w","o",
      "r","d","s",":"," ","n","a","m","e",","," ","i","d","e","n","t","i","t","y","\n",
      "\n","#","#"," ","C","o","n","t","e","x","t","u","a","l"," ","M","e","m","o","r",
      "i","e","s","\n","\n","-"," ","[","M","a","x","]","(","m","e","m","o","r","y","/",
      "n","o","d","e","s","/","m","a","x",".","m","d",")"," ","-"," ","k","e","y","w",
      "o","r","d","s",":"," ","d","o","g",","," ","p","e","t","\n","-"," ","[","T","r",
      "i","p","]","(","m","e","m","o","r","y","/","n","o","d","e","s","/","t","r","i",
      "p",".","m","d",")"," ","-"," ","k","e","y","w","o","r","d","s",":"," ","t","r",
      "a","v","e","l",","," ","d","o","g","s","l","e","d","\n","\n","#","#"," ","A","r",
      "c","h","i","v","a","l"," ","M","e","m","o","r","i","e","s","\n","\n","-"," ","[",
      "O","l","d","]","(","m","e","m","o","r","y","/","n","o","d","e","s","/","o","l",
      "d",".","m","d",")"," ","-"," ","k","e","y","w","o","r","d","s",":"," ","d","o",
      "g",","," ","p","u","p","p","y","\n">>

InjectIndexFiles == { NoFile, << HeaderOnlyIndex >>, << TwoNodeIndex >>, << FourNodeIndex >> }

PATH_IDENTITY == <<"m","e","m","o","r","y","/","n","o","d","e","s","/","i","d","e","n","t","i","t","y",
  ".","m","d">>
PATH_MAX == <<"m","e","m","o","r","y","/","n","o","d","e","s","/","m","a","x",".","m","d">>
PATH_TRIP == <<"m","e","m","o","r","y","/","n","o","d","e","s","/","t","r","i","p",".","m","d">>
PATH_OLD == <<"m","e","m","o","r","y","/","n","o","d","e","s","/","o","l","d",".","m","d">>

\* The node documents found in the workspace: each has one of a few lengths,
\* or is missing
NodeFileSets ==
    { f \in [ {PATH_IDENTITY, PATH_MAX, PATH_TRIP, PATH_OLD} -> {0, 50, 9000, 17000} ] :
          /\ f[PATH_IDENTITY] # 50
          /\ f[PATH_MAX] # 17000
          /\ f[PATH_TRIP] = 50
          /\ f[PATH_OLD] = 50 }

\* The files of a choice: length 0 stands for a missing file
NodeFilesOf(f) ==
    [path \in {q \in DOMAIN f : f[q] # 0} |-> [chars |-> f[path]]]

CTX_DOG == <<"t","e","l","l"," ","m","e"," ","a","b","o","u","t"," ","m","y"," ","d","o","g">>
CTX_WEATHER == <<"w","h","a","t","'","s"," ","t","h","e"," ","w","e","a","t","h","e","r">>
Contexts == { CTX_DOG, CTX_WEATHER, << >> }

KW_TRAVEL == <<"t","r","a","v","e","l">>
KW_DOG == <<"d","o","g">>
KW_DOGS == <<"d","o","g","s">>
KW_CAT == <<"c","a","t">>
KW_IDENTITY == <<"i","d","e","n","t","i","t","y">>

InjectConfigs ==
    [maxTokens : { Undefined, << 20 >> },
     tiers : { Undefined, << << "archival", "contextual", "core" >> >> },
     coreKeywords : { Undefined }]
    \cup { [maxTokens |-> Undefined, tiers |-> << << "archival", "contextual" >> >>,
            coreKeywords |-> << << KW_TRAVEL >> >>] }

\* By how much the clock advances between two lines of a parse
ParseTicks == {0, 1}

CandidateLists ==
    { << >>, << KW_CAT >>, << KW_DOGS >>, << KW_IDENTITY, KW_DOGS >>,
      ExtractKeywordsFromContext(CTX_DOG), ExtractKeywordsFromContext(CTX_WEATHER) }

TierLists == { << "core", "contextual" >>, << "contextual", "archival" >> }

\* The pieces conversation texts are put together from: words of three
\* characters and more, a capital, short words, punctuation inside a word and
\* between words, white space other than one blank
TextPieces ==
    { <<"D","o","g">>, <<"d","o","g",",">>, <<"m","y">>, <<"i","t","'","s">>,
      <<"\n","-","\t","c","a","t","_","1">> }

\* The longest conversation text, in pieces
MaxPieces == 3

\* The texts of up to MaxPieces pieces with a blank between two pieces
Texts ==
    { Join(pieces, << " " >>) :
          pieces \in UNION { [1..n -> TextPieces] : n \in 0..MaxPieces } }

----------------------------------------------------------------------------
(* Research topics from the memory index (behaviors.ts) *)

\* .slice(0, 10)
TOP_KEYWORDS == 10

\* The keyword of every keywordFrequency.set, in the order the loops make
\* them: for each id list of the keyword map, for each id in it whose node
\* exists, each keyword of that node
FrequencyIncrements(idx) ==
    LET ofIds(ids) ==
            Flat([j \in 1..Len(ids) |->
                     IF HasNode(idx.nodes, ids[j])
                     THEN NodeOf(idx.nodes, ids[j]).keywords ELSE << >>], Len(ids))
    IN  Flat([i \in 1..Len(idx.keywordMap) |-> ofIds(idx.keywordMap[i].ids)],
             Len(idx.keywordMap))

\* keywordFrequency.get(keyword) after the increments incs
KeywordFrequency(incs, keyword) ==
    Cardinality({p \in 1..Len(incs) : incs[p] = keyword})

\* .sort((a, b) => b[1] - a[1]) of the entries [keys[i], count[i]]: the
\* greater count first, entries of equal count in the order they had (the
\* sort is stable)
SortDescending(keys, count) ==
    [r \in 1..Len(keys) |->
        keys[CHOOSE i \in 1..Len(keys) :
                 r = 1 + Cardinality({j \in 1..Len(keys) :
                             count[j] > count[i] \/ (count[j] = count[i] /\ j < i)})]]
        \o << >>

\* [...keywordFrequency.entries()].sort(...): a Map lists its keys in the
\* order they were first set
SortedKeywords(incs, keys) ==
    SortDescending(keys, [i \in 1..Len(keys) |-> KeywordFrequency(incs, keys[i])])

SortedByFrequency(idx) ==
    SortedKeywords(FrequencyIncrements(idx), Unique(FrequencyIncrements(idx)))

\* detectResearchTopics(workspaceDir, memoryIndex) in a workspace with no
\* daily log of today or yesterday (both fs.readFile reject and are caught):
\* the topics are the ten most frequent keywords
DetectResearchTopics(idx) ==
    LET sorted == SortedByFrequency(idx)
    IN  SubSeq(sorted, 1, IF Len(sorted) < TOP_KEYWORDS THEN Len(sorted) ELSE TOP_KEYWORDS)

\* detectResearchTopics on the index the caller loaded or built last (an
\* empty index where loadMemoryIndex returned null: no topic either way)
DetectResearchTopicsCall ==
    /\ ret' = [op |-> "detectResearchTopics", topics |-> DetectResearchTopics(index)]
    /\ UNCHANGED << now, ticks, tz >>
    /\ UNCHANGED memVars
    /\ UNCHANGED schedVars
    /\ UNCHANGED raceVars

\* The nodes of a workspace, as the createMemoryNode calls that made them
TopicNode(title, keywords) == [title |-> << title >>, keywords |-> keywords]

Letters(chars) == [i \in 1..Len(chars) |-> << chars[i] >>]

TopicWorkspaces ==
    { << >>,
      << TopicNode("A", Letters(<< "x", "y" >>)), TopicNode("B", Letters(<< "x" >>)) >>,
      << TopicNode("A", Letters(<< "x" >>)), TopicNode("B", Letters(<< "x" >>)),
         TopicNode("C", Letters(<< "y", "p", "q" >>)) >>,
      << TopicNode("C", Letters(<< "a", "b", "c", "d" >>)),
         TopicNode("D", Letters(<< "e", "f", "g", "h" >>)),
         TopicNode("E", Letters(<< "i", "j", "k" >>)),
         TopicNode("A", Letters(<< "z" >>)), TopicNode("B", Letters(<< "z" >>)) >> }

\* The index after createMemoryNode made the first i nodes of a workspace
RECURSIVE IndexOfNodes(_, _)
IndexOfNodes(nodes, i) ==
    IF i = 0 THEN EmptyIndex
    ELSE AddEntry(IndexOfNodes(nodes, i - 1),
                  NewEntry(nodes[i].title, nodes[i].keywords, "contextual", StartTime))

TopicIndexFiles ==
    { IF w = << >> THEN NoFile
      ELSE << SerializeMemoryIndexToMarkdown(IndexOfNodes(w, Len(w))) >> :
      w \in TopicWorkspaces }

TopicTitles == { << "F" >>, << "A" >> }
TopicKeywordLists == { Letters(<< "x" >>), Letters(<< "y", "r" >>) }

----------------------------------------------------------------------------
(* Specifications *)

InitClock ==
    /\ now = StartTime
    /\ ticks = 0
    /\ ret = [op |-> "init"]

\* No concurrent caller
InitNoRace ==
    /\ procs = << >>
    /\ dreamVersion = 0
    /\ overwrote = FALSE
    /\ interrupted = << >>

InitSched ==
    /\ dreamFile = NoFile
    /\ researchFile = NoFile
    /\ reportFiles = << >>
    /\ activityAt = Null
    /\ reported = {}
    /\ cleared = [topics |-> {}, insights |-> {}]
    /\ InitNoRace

\* The memory index and its operations
Init ==
    /\ InitClock
    /\ tz = 0
    /\ InitMem
    /\ InitSched

Next ==
    \/ LoadMemoryIndex
    \/ \E title \in Titles, keywords \in KeywordLists, content \in Bodies,
          tier \in CreateTiers :
           CreateMemoryNode(title, keywords, content, tier)

Spec == Init /\ [][Next]_vars

InitNoMem ==
    /\ indexFile = NoFile
    /\ nodeFiles = << >>
    /\ index = EmptyIndex
    /\ created = << >>
    /\ lookups = 0

\* The dream gates and the recorders they depend on
InitGate ==
    /\ InitClock
    /\ tz = 0
    /\ InitNoMem
    /\ InitSched

NextDream ==
    \/ \E d \in DreamSteps : Tick(d)
    \/ RecordActivity
    \/ RecordDream
    \/ \E config \in DreamConfigs : ShouldDream(config)
    \/ \E config \in LegacyDreamConfigs : ShouldDreamLegacyCall(config)

SpecDream == InitGate /\ [][NextDream]_vars

\* The research gate
NextResearch ==
    \/ \E d \in ResearchSteps : Tick(d)
    \/ RecordActivity
    \/ RecordResearch
    \/ \E config \in ResearchConfigs : ShouldResearch(config)

SpecResearch == InitGate /\ [][NextResearch]_vars

\* Both gates and every recorder of a timestamp
NextIdle ==
    \/ \E d \in IdleSteps : Tick(d)
    \/ RecordActivity
    \/ RecordDream
    \/ RecordResearch
    \/ \E config \in IdleDreamConfigs : ShouldDream(config)
    \/ \E config \in IdleResearchConfigs : ShouldResearch(config)

SpecIdle == InitGate /\ [][NextIdle]_vars

\* The morning report
InitReport ==
    /\ InitClock
    /\ tz \in TimeZones
    /\ InitNoMem
    /\ dreamFile \in DreamFiles
    /\ researchFile \in ResearchFiles
    /\ reportFiles = << >>
    /\ activityAt = Null
    /\ reported = {}
    /\ cleared = [topics |-> {}, insights |-> {}]
    /\ InitNoRace

NextReport ==
    \/ \E d \in ReportSteps : Tick(d)
    \/ \E config \in ReportConfigs : ShouldSendMorningReport(config)
    \/ RecordMorningReport
    \/ GenerateMorningReportMessage

SpecReport == InitReport /\ [][NextReport]_vars

\* Two callers whose operations interleave
InitRace ==
    /\ InitClock
    /\ tz = 0
    /\ InitNoMem
    /\ dreamFile \in DreamFiles \ {NoFile}
    /\ researchFile \in ResearchFiles \ {NoFile}
    /\ reportFiles = << >>
    /\ activityAt = Null
    /\ reported = {}
    /\ cleared = [topics |-> {}, insights |-> {}]
    /\ procs = [p \in Procs |-> IdleProc]
    /\ dreamVersion = 0
    /\ overwrote = FALSE
    /\ interrupted = << >>

NextRace ==
    \/ \E d \in RaceSteps : ticks < MaxRaceTicks /\ Tick(d)
    \/ \E p \in Procs, op \in RaceOps : StartCall(p, op)
    \/ \E p \in Procs, config \in RaceReportConfigs : CheckReport(p, config)
    \/ \E p \in Procs : WriteReportFile(p)
    \/ \E p \in Procs : LoadResearchStep(p)
    \/ \E p \in Procs : SaveResearchStep(p)
    \/ \E p \in Procs : LoadDreamStep(p)
    \/ \E p \in Procs : SaveDreamStep(p)

SpecRace == InitRace /\ [][NextRace]_vars

\* Memory injection from a workspace holding an index and node documents
InitInject ==
    /\ InitClock
    /\ tz = 0
    /\ indexFile \in InjectIndexFiles
    /\ nodeFiles \in { NodeFilesOf(f) : f \in NodeFileSets }
    /\ index = EmptyIndex
    /\ created = << >>
    /\ lookups = 0
    /\ InitSched

NextInject ==
    \/ LoadMemoryIndex
    \/ \E context \in Contexts, config \in InjectConfigs, tick \in ParseTicks :
           InjectMemories(context, config, tick)
    \/ \E keywords \in CandidateLists, tiers \in TierLists :
           FindMatchingNodesCall(keywords, tiers)

SpecInject == InitInject /\ [][NextInject]_vars

\* Keyword extraction from conversation texts
InitExtract ==
    /\ InitClock
    /\ tz = 0
    /\ InitNoMem
    /\ InitSched

NextExtract == \E text \in Texts : ExtractKeywords(text)

SpecExtract == InitExtract /\ [][NextExtract]_vars

\* The recorders and the delivery of the morning report, one call after another
InitDelivery ==
    /\ InitClock
    /\ tz = 0
    /\ InitNoMem
    /\ dreamFile \in DeliveryDreamFiles
    /\ researchFile \in DeliveryResearchFiles
    /\ reportFiles = << >>
    /\ activityAt = Null
    /\ reported = {}
    /\ cleared = [topics |-> {}, insights |-> {}]
    /\ InitNoRace

NextDelivery ==
    \/ \E d \in DeliverySteps : Tick(d)
    \/ RecordActivity
    \/ RecordDream
    \/ RecordResearch
    \/ \E config \in DeliveryConfigs : ShouldSendMorningReport(config)
    \/ GenerateMorningReportMessage
    \/ \E body \in ReportBodies : SaveMorningReport(ReportOf(body, now))
    \/ RecordMorningReport

SpecDelivery == InitDelivery /\ [][NextDelivery]_vars

\* The legacy gates and the parsing of their intervals
InitLegacy ==
    /\ InitClock
    /\ tz = 0
    /\ InitNoMem
    /\ InitSched

NextLegacy ==
    \/ \E d \in LegacySteps : ticks < MaxLegacyTicks /\ Tick(d)
    \/ RecordDream
    \/ RecordResearch
    \/ \E duration \in Durations : ParseDurationCall(duration)
    \/ \E config \in LegacyIntervalDreamConfigs : ShouldDreamLegacyCall(config)
    \/ \E config \in IntervalConfigs : ShouldResearchLegacyCall(config)

SpecLegacy == InitLegacy /\ [][NextLegacy]_vars

\* Topic detection on indexes loaded from a workspace and grown by new nodes
InitTopics ==
    /\ InitClock
    /\ tz = 0
    /\ indexFile \in TopicIndexFiles
    /\ nodeFiles = << >>
    /\ index = EmptyIndex
    /\ created = << >>
    /\ lookups = 0
    /\ InitSched

NextTopics ==
    \/ LoadMemoryIndex
    \/ \E title \in TopicTitles, keywords \in TopicKeywordLists, content \in Bodies :
           CreateMemoryNode(title, keywords, content, "contextual")
    \/ DetectResearchTopicsCall

SpecTopics == InitTopics /\ [][NextTopics]_vars

\* Files that are missing, unreadable or not JSON
InitFaults ==
    /\ InitClock
    /\ tz = 0
    /\ indexFile \in FaultIndexFiles
    /\ nodeFiles = << >>
    /\ index = EmptyIndex
    /\ created = << >>
    /\ lookups = 0
    /\ dreamFile \in FaultDreamFiles
    /\ researchFile \in FaultResearchFiles
    /\ reportFiles = << >>
    /\ activityAt = Null
    /\ reported = {}
    /\ cleared = [topics |-> {}, insights |-> {}]
    /\ InitNoRace

NextFaults ==
    \/ LoadDreamStateCall
    \/ LoadResearchStateCall
    \/ LoadMemoryIndex
    \/ \E title \in FaultTitles, keywords \in FaultKeywordLists, content \in Bodies :
           CreateMemoryNode(title, keywords, content, "core")
    \/ RecordActivity
    \/ RecordResearch

SpecFaults == InitFaults /\ [][NextFaults]_vars

\* recordMorningReport with writes that fail, and the calls made after
InitRetry ==
    /\ InitClock
    /\ tz = 0
    /\ InitNoMem
    /\ dreamFile \in FaultDreamFiles
    /\ researchFile \in FaultResearchFiles
    /\ reportFiles = << >>
    /\ activityAt = Null
    /\ reported = {}
    /\ cleared = [topics |-> {}, insights |-> {}]
    /\ InitNoRace

NextRetry ==
    \/ \E d \in RetrySteps : ticks < MaxFaultTicks /\ Tick(d)
    \/ RecordActivity
    \/ \E k \in ReportWrites, outcome \in WriteOutcomes :
           RecordMorningReportFailing(k, outcome)
    \/ RecordMorningReport

SpecRetry == InitRetry /\ [][NextRetry]_vars

----------------------------------------------------------------------------
(* Properties of the memory index *)

\* The number of positions of seq that hold x
Count(seq, x) == Cardinality({i \in 1..Len(seq) : seq[i] = x})

IdsOfNodes(nodes) == {nodes[i].id : i \in 1..Len(nodes)}

\* C1: every node id in an id list of the inverted keyword map is a key of
\* the node mapping, in the index any loadMemoryIndex or createMemoryNode holds.
KeywordMapIdsAreNodes ==
    \A i \in 1..Len(index.keywordMap) :
        Range(index.keywordMap[i].ids) \subseteq IdsOfNodes(index.nodes)

\* A created node and a parsed node share a keyword: its id list holds both.
KeywordMapIdsAreNodesWitness ==
    /\ ret.op = "createMemoryNode"
    /\ \E i \in 1..Len(index.keywordMap) : Len(index.keywordMap[i].ids) >= 2
    /\ Len(index.nodes) >= 3

\* C2: every keyword of every entry and every key of the inverted map is in
\* lower case, and so are the keywords createMemoryNode returns.
KeywordsAreCaseFolded ==
    /\ \A i \in 1..Len(index.nodes) :
           \A k \in Range(index.nodes[i].keywords) : k = ToLowerCase(k)
    /\ \A i \in 1..Len(index.keywordMap) :
           index.keywordMap[i].keyword = ToLowerCase(index.keywordMap[i].keyword)
    /\ ret.op = "createMemoryNode" =>
           \A k \in Range(ret.keywords) : k = ToLowerCase(k)

\* A node created with the keyword "Dog" beside an entry parsed from a
\* document that spells its keywords "Max, Dog".
KeywordsAreCaseFoldedWitness ==
    /\ ret.op = "createMemoryNode"
    /\ \E k \in Range(nodeFiles[NodeFilePath(ret.id)].keywords) : k # ToLowerCase(k)
    /\ \E i \in 1..Len(index.nodes) :
           /\ index.nodes[i].id # ret.id
           /\ <<"m","a","x">> \in Range(index.nodes[i].keywords)

\* C3: two createMemoryNode calls with one title return one id, and the
\* index a call leaves holds exactly one entry under that id, the entry of
\* that call, with the id at most once in each keyword's id list.
SameTitleSameEntry ==
    /\ \A i, j \in 1..Len(created) :
           created[i].title = created[j].title => created[i].id = created[j].id
    /\ ret.op = "createMemoryNode" =>
           LET entry == created[Len(created)].entry
           IN  /\ ret.id = entry.id
               /\ Cardinality({i \in 1..Len(index.nodes) :
                                   index.nodes[i].id = entry.id}) = 1
               /\ NodeOf(index.nodes, entry.id) = entry
               /\ \A i \in 1..Len(index.keywordMap) :
                      Count(index.keywordMap[i].ids, entry.id) <= 1

\* The second of two calls with one title, a different tier and a keyword of
\* the first call again.
SameTitleSameEntryWitness ==
    /\ ret.op = "createMemoryNode"
    /\ Len(created) = 2
    /\ created[1].title = created[2].title
    /\ created[1].entry.tier # created[2].entry.tier
    /\ Range(created[1].entry.keywords) \cap Range(created[2].entry.keywords) # {}

\* serialize(parse(serialize(idx)))
Reserialized(idx) ==
    SerializeMemoryIndexToMarkdown(
        ParseMemoryIndexMarkdown(SerializeMemoryIndexToMarkdown(idx), now))

\* C4: for an index with a non-empty node set, serialising it, parsing the
\* result and serialising again gives the first serialisation.
SerializeRoundTrip ==
    Len(index.nodes) > 0 =>
        Reserialized(index) = SerializeMemoryIndexToMarkdown(index)

----------------------------------------------------------------------------
(* Properties of the dream and research gates *)

\* The idle thresholds and intervals, in minutes
DreamThreshold(config) ==
    IF config.dreamIdleHours = Undefined THEN 180
    ELSE (60 * config.dreamIdleHours[1].n) \div config.dreamIdleHours[1].d

ResearchThreshold(config) ==
    IF config.researchIdleHours = Undefined THEN 360
    ELSE (60 * config.researchIdleHours[1].n) \div config.researchIdleHours[1].d

LegacyThreshold(config) ==
    IF config.minIdleMinutes = Undefined THEN 30 ELSE config.minIdleMinutes[1]

\* The idle duration: now minus lastUserActivityAt (null counts as 0)
IdleDuration(state) == now - ToNumber(state.lastUserActivityAt)

\* No dream recorded, or at least `minutes` since the last one
DreamDue(state, ms) ==
    state.lastDreamAt = Null \/ (now - state.lastDreamAt[1]) * 60000 >= ms

\* C5: shouldDream is true iff dream mode is enabled, and no dream is
\* recorded or the time since the last dream is at least the re-dream
\* interval (six hours; config.every for the legacy gate), and the idle
\* duration is at least the idle threshold.
DreamGate ==
    LET state == LoadDreamState(dreamFile)
    IN  /\ ret.op = "shouldDream" =>
               ret.result =
                   (/\ ret.config.dreamModeEnabled # << FALSE >>
                    /\ DreamDue(state, 6 * 3600000)
                    /\ IdleDuration(state) >= DreamThreshold(ret.config))
        /\ ret.op = "shouldDreamLegacy" =>
               ret.result =
                   (/\ ret.config.enabled = << TRUE >>
                    /\ DreamDue(state, DreamEveryMs(ret.config))
                    /\ IdleDuration(state) >= LegacyThreshold(ret.config))

\* shouldDream returns true with a dream and an activity recorded before.
DreamGateWitness ==
    /\ ret.op = "shouldDream"
    /\ ret.result
    /\ LoadDreamState(dreamFile).lastDreamAt # Null
    /\ LoadDreamState(dreamFile).lastUserActivityAt # Null

\* C6: with dream mode enabled, no dream recorded and activity recorded at
\* t, shouldDream is false before t plus the idle threshold and true from
\* then on.
IdleGating ==
    ( /\ ret.op = "shouldDream"
      /\ ret.config.dreamModeEnabled # << FALSE >>
      /\ LoadDreamState(dreamFile).lastDreamAt = Null
      /\ activityAt # Null )
    => ret.result = (now >= activityAt[1] + DreamThreshold(ret.config))

\* Threshold 30 minutes, 31 minutes idle: true.
IdleGatingWitness ==
    /\ ret.op = "shouldDream"
    /\ ret.config.dreamIdleHours = << HalfAnHour >>
    /\ LoadDreamState(dreamFile).lastDreamAt = Null
    /\ activityAt # Null
    /\ now = activityAt[1] + 31
    /\ ret.result

ResearchDue(state) ==
    state.lastResearchAt = Null \/ now - state.lastResearchAt[1] >= 720

\* C7 as stated: shouldResearch is true iff research mode is enabled, the
\* time since the last research is at least its interval, and the idle
\* duration from DreamState.lastUserActivityAt exceeds the idle threshold.
ResearchGateExceeds ==
    ret.op = "shouldResearch" =>
        ret.result =
            (/\ ret.config.researchModeEnabled # << FALSE >>
             /\ ResearchDue(LoadResearchState(researchFile))
             /\ IdleDuration(LoadDreamState(dreamFile)) > ResearchThreshold(ret.config))

\* C7 as amended: ... and the idle duration from
\* DreamState.lastUserActivityAt is at least the idle threshold.
ResearchGate ==
    ret.op = "shouldResearch" =>
        ret.result =
            (/\ ret.config.researchModeEnabled # << FALSE >>
             /\ ResearchDue(LoadResearchState(researchFile))
             /\ IdleDuration(LoadDreamState(dreamFile)) >= ResearchThreshold(ret.config))

\* shouldResearch returns true when the idle duration equals the threshold,
\* with a research recorded before.
ResearchGateWitness ==
    /\ ret.op = "shouldResearch"
    /\ ret.result
    /\ LoadResearchState(researchFile).lastResearchAt # Null
    /\ activityAt # Null
    /\ now - activityAt[1] = ResearchThreshold(ret.config)

\* C8: after recordActivity at t, shouldDream and shouldResearch are false
\* at every time before t plus their (positive) idle threshold, whatever
\* lastDreamAt and lastResearchAt are.
ActivityResetsEveryIdleClock ==
    activityAt # Null =>
        /\ ( /\ ret.op = "shouldDream"
             /\ DreamThreshold(ret.config) > 0
             /\ now < activityAt[1] + DreamThreshold(ret.config) ) => ~ret.result
        /\ ( /\ ret.op = "shouldResearch"
             /\ ResearchThreshold(ret.config) > 0
             /\ now < activityAt[1] + ResearchThreshold(ret.config) ) => ~ret.result

\* shouldResearch is asked 29 minutes after an activity, with a dream recorded
\* after that activity and the last research more than twelve hours old.
ActivityResetsEveryIdleClockWitness ==
    /\ ret.op = "shouldResearch"
    /\ activityAt # Null
    /\ now = activityAt[1] + 29
    /\ LoadDreamState(dreamFile).lastDreamAt # Null
    /\ LoadDreamState(dreamFile).lastDreamAt[1] >= activityAt[1]
    /\ LoadResearchState(researchFile).lastResearchAt # Null
    /\ now - LoadResearchState(researchFile).lastResearchAt[1] >= 720
    /\ ~ret.result

----------------------------------------------------------------------------
(* Properties of the morning report *)

\* C9: shouldSendMorningReport is true iff reporting is enabled, the local
\* hour is the configured report hour (8 by default) and no report file
\* exists for today's date.
MorningReportGate ==
    ret.op = "shouldSendMorningReport" =>
        ret.result =
            (/\ ret.config.morningReportEnabled # << FALSE >>
             /\ ((now + tz) \div 60) % 24 =
                    (IF ret.config.morningReportHour = Undefined THEN 8
                     ELSE ret.config.morningReportHour[1])
             /\ (now \div 1440) \notin DOMAIN reportFiles)

\* Asked in the report hour with reporting enabled and today's file there.
MorningReportGateWitness ==
    /\ ret.op = "shouldSendMorningReport"
    /\ ret.config.morningReportEnabled # << FALSE >>
    /\ GetHours(now, tz) = ReportHour(ret.config)
    /\ FormatDate(now) \in DOMAIN reportFiles
    /\ ~ret.result

\* C10: once recordMorningReport has run for a date, every later
\* shouldSendMorningReport for that date returns false.
ReportSentOncePerDate ==
    ( ret.op = "shouldSendMorningReport" /\ (now \div 1440) \in reported )
        => ~ret.result

\* Asked again in the report hour, half an hour after the report was recorded.
ReportSentOncePerDateWitness ==
    /\ ret.op = "shouldSendMorningReport"
    /\ ret.config.morningReportEnabled # << FALSE >>
    /\ GetHours(now, tz) = ReportHour(ret.config)
    /\ FormatDate(now) \in reported
    /\ reportFiles[FormatDate(now)].sentAt < now

\* C11: when recordMorningReport completes, DreamState.insights and
\* ResearchState.completedTopics are empty, and a report message generated
\* afterwards holds no insight and no completed topic that was there before
\* the call.
ReportClearsWhatItReported ==
    /\ ret.op = "recordMorningReport" =>
           /\ LoadDreamState(dreamFile).insights = << >>
           /\ LoadResearchState(researchFile).completedTopics = << >>
    /\ (ret.op = "generateMorningReportMessage" /\ reported # {} /\ ret.message # Null) =>
           /\ Range(ret.message[1].insights) \cap cleared.insights = {}
           /\ Range(ret.message[1].topics) \cap cleared.topics = {}

\* A message is asked for after recordMorningReport found an insight and a
\* completed topic: there is nothing left to report.
ReportClearsWhatItReportedWitness ==
    /\ ret.op = "generateMorningReportMessage"
    /\ reported # {}
    /\ cleared.insights # {}
    /\ cleared.topics # {}
    /\ ret.message = Null

----------------------------------------------------------------------------
(* Properties of concurrent callers *)

\* C12: the morning-report check takes no lock: an evaluation made in the
\* report hour while no report file exists for the date returns true even
\* when another evaluation has returned true for that date and its caller
\* has not yet written the file, so both fire.
ReportCheckTakesNoLock ==
    ( /\ ret.op = "shouldSendMorningReport"
      /\ "proc" \in DOMAIN ret
      /\ ret.config.morningReportEnabled # << FALSE >>
      /\ ((now + tz) \div 60) % 24 = 8
      /\ (now \div 1440) \notin DOMAIN reportFiles
      /\ \E q \in Procs \ {ret.proc} :
             procs[q].pc = "writeReport" /\ procs[q].fired = << now \div 1440 >> )
    => /\ ret.result
       /\ procs[ret.proc].pc = "writeReport"

\* Both callers have been told to send the report of one date, and neither
\* has written the report file.
ReportCheckTakesNoLockWitness ==
    /\ ret.op = "shouldSendMorningReport"
    /\ ret.result
    /\ \A p \in Procs : procs[p].pc = "writeReport" /\ procs[p].fired = << FormatDate(now) >>
    /\ FormatDate(now) \notin DOMAIN reportFiles

\* C13: the state documents are written back without a guard.  An update is
\* missing from the dream state only after some caller wrote back a copy it
\* had read before another caller's write, and that does happen: the last
\* writer's stale copy replaces the earlier writer's update.
UpdatesLostOnlyToStaleWrites ==
    /\ ( activityAt # Null
         /\ LoadDreamState(dreamFile).lastUserActivityAt # activityAt ) => overwrote
    /\ ( reported # {} /\ LoadDreamState(dreamFile).insights # << >> ) => overwrote

\* recordDream completes with the copy it read before recordActivity wrote:
\* the activity recordActivity saved is gone.
UpdatesLostOnlyToStaleWritesWitness ==
    /\ ret.op = "recordDream"
    /\ activityAt # Null
    /\ LoadDreamState(dreamFile).lastUserActivityAt = Null
    /\ LoadDreamState(dreamFile).lastDreamAt # Null

\* recordActivity completes with the copy it read before recordMorningReport
\* cleared the insights: they are back.
ClearedInsightsRestored ==
    /\ ret.op = "recordActivity"
    /\ reported # {}
    /\ Range(LoadDreamState(dreamFile).insights) = cleared.insights
    /\ cleared.insights # {}

----------------------------------------------------------------------------
(* Properties of the memory injection *)

\* The entries of the last injectMemories call in the order it tries them,
\* and those of them whose node document exists
Candidates == SortedEntries(index, ret.context, ret.config)

FileFound(entry) == entry.filePath \in DOMAIN nodeFiles

Loadable == SelectSeq(Candidates, FileFound)

SizeOf(entry) == NodeFileLength(nodeFiles[entry.filePath])

\* The lengths of the first k loadable candidates, added up
RECURSIVE SizeOfFirst(_)
SizeOfFirst(k) == IF k = 0 THEN 0 ELSE SizeOfFirst(k - 1) + SizeOf(Loadable[k])

\* maxTokens x 4, with 4000 tokens when the configuration names none
BudgetChars ==
    4 * (IF ret.config.maxTokens = Undefined THEN 4000 ELSE ret.config.maxTokens[1])

Injecting == ret.op = "injectMemories" /\ ret.found /\ Len(index.nodes) > 0

\* C14: the nodes injectMemories returns are the first loadable candidates,
\* in order; the first one is accepted whatever its size, each later one only
\* when the accumulated length stays within maxTokens x 4, and nothing behind
\* the first rejected candidate is returned, even if it would fit.
BudgetStopsAtFirstRejection ==
    Injecting =>
        LET n == Len(ret.result.nodes)
        IN  /\ n <= Len(Loadable)
            /\ \A i \in 1..n : ret.result.nodes[i].id = Loadable[i].id
            /\ Len(Loadable) > 0 => n >= 1
            /\ \A k \in 2..n : SizeOfFirst(k) <= BudgetChars
            /\ n < Len(Loadable) => SizeOfFirst(n + 1) > BudgetChars

\* The second candidate was rejected and a candidate behind it, which would
\* have fitted beside the nodes taken, is left out.
BudgetStopsAtFirstRejectionWitness ==
    /\ Injecting
    /\ Len(ret.result.nodes) >= 1
    /\ \E j \in (Len(ret.result.nodes) + 2)..Len(Loadable) :
           SizeOfFirst(Len(ret.result.nodes)) + SizeOf(Loadable[j]) <= BudgetChars

\* The lengths of the candidates, all of them loadable
CandidateSizes == [i \in 1..Len(Loadable) |-> SizeOf(Loadable[i])]

ThreeCandidates(sizes) ==
    /\ Injecting
    /\ ret.config.maxTokens = Undefined
    /\ Len(Candidates) = 3
    /\ CandidateSizes = sizes

\* C15 as stated: three candidates of 9000, 50 and 50 characters, in that
\* order, and a budget of 4000 tokens give exactly one node.
OversizedFirstNodeOf9000 ==
    ThreeCandidates(<< 9000, 50, 50 >>) => Len(ret.result.nodes) = 1

\* C15 as amended: three candidates of 17000, 50 and 50 characters, in that
\* order, and a budget of 4000 tokens (16000 characters) give exactly one
\* node, the first; with 9000, 50 and 50 characters all three are returned.
OversizedFirstNode ==
    /\ ThreeCandidates(<< 17000, 50, 50 >>) =>
           /\ Len(ret.result.nodes) = 1
           /\ ret.result.nodes[1].id = Candidates[1].id
    /\ ThreeCandidates(<< 9000, 50, 50 >>) => Len(ret.result.nodes) = 3

\* The 17000-character node was taken alone.
OversizedFirstNodeWitness ==
    /\ ThreeCandidates(<< 17000, 50, 50 >>)
    /\ Len(ret.result.nodes) = 1
    /\ ret.result.nodes[1].contentLength = 17000

\* core before contextual before archival
TierRank(tier) == CHOOSE r \in 0..2 : << "core", "contextual", "archival" >>[r + 1] = tier

\* C16: the nodes injectMemories returns are in tier precedence order, and
\* within one tier in descending order of update time.
InjectionOrder ==
    ret.op = "injectMemories" =>
        \A i, j \in 1..Len(ret.result.nodes) :
            i < j =>
                LET a == ret.result.nodes[i]
                    b == ret.result.nodes[j]
                IN  /\ TierRank(a.tier) <= TierRank(b.tier)
                    /\ a.tier = b.tier => a.updatedAt >= b.updatedAt

\* Three tiers are returned, and two nodes of one tier whose update times
\* differ come in the reverse of their order in the index.
InjectionOrderWitness ==
    /\ ret.op = "injectMemories"
    /\ {ret.result.nodes[i].tier : i \in 1..Len(ret.result.nodes)}
           = {"core", "contextual", "archival"}
    /\ \E i, j \in 1..Len(ret.result.nodes) :
           /\ i < j
           /\ ret.result.nodes[i].tier = ret.result.nodes[j].tier
           /\ ret.result.nodes[i].updatedAt > ret.result.nodes[j].updatedAt
           /\ \E m, n \in 1..Len(index.nodes) :
                  /\ m > n
                  /\ index.nodes[m].id = ret.result.nodes[i].id
                  /\ index.nodes[n].id = ret.result.nodes[j].id

\* The content lengths of the first k returned nodes, added up
RECURSIVE ReturnedChars(_)
ReturnedChars(k) ==
    IF k = 0 THEN 0
    ELSE ReturnedChars(k - 1)
         + NodeFileLength(nodeFiles[NodeOf(index.nodes, ret.result.nodes[k].id).filePath])

\* C17: totalTokens is the sum of the content lengths of the returned nodes,
\* divided by 4 and rounded up.
TotalTokensIsCeiling ==
    ret.op = "injectMemories" =>
        LET sum == ReturnedChars(Len(ret.result.nodes))
            t == ret.result.totalTokens
        IN  /\ 4 * t >= sum
            /\ 4 * (t - 1) < sum

\* Two nodes whose lengths add up to no multiple of 4.
TotalTokensIsCeilingWitness ==
    /\ ret.op = "injectMemories"
    /\ Len(ret.result.nodes) = 2
    /\ ReturnedChars(2) % 4 # 0
    /\ 4 * ret.result.totalTokens > ReturnedChars(2)

----------------------------------------------------------------------------
(* Properties of the matching *)

ReturnedIds == {ret.result.entries[i].id : i \in 1..Len(ret.result.entries)}

\* C19: when core is among the requested tiers, findMatchingNodes returns
\* every core node of the index, for any keyword list.
CoreAlwaysIncluded ==
    ( ret.op = "findMatchingNodes" /\ "core" \in Range(ret.tiers) ) =>
        \A i \in 1..Len(index.nodes) :
            index.nodes[i].tier = "core" => index.nodes[i].id \in ReturnedIds

\* No keyword at all, or one that matches nothing: the core node alone is
\* returned from an index that holds other nodes too.
CoreAlwaysIncludedWitness ==
    /\ ret.op = "findMatchingNodes"
    /\ "core" \in Range(ret.tiers)
    /\ ret.keywords \in { << >>, << KW_CAT >> }
    /\ Len(index.nodes) >= 2
    /\ Len(ret.result.entries) = 1
    /\ ret.result.entries[1].tier = "core"

\* a occurs in b
Substring(a, b) == \E i \in 0..(Len(b) - Len(a)) : SubSeq(b, i + 1, i + Len(a)) = a

\* C20: a non-core node of a requested tier is returned by findMatchingNodes
\* iff some candidate keyword equals one of its indexed keywords, contains
\* one, or is contained in one.  So "tell me about my dog" with the core and
\* contextual tiers returns the core node and the node with the keywords
\* dog, pet, with dog among the matched keywords, and "what's the weather"
\* returns the core node only.
KeywordMatching ==
    ret.op = "findMatchingNodes" =>
        /\ \A i \in 1..Len(index.nodes) :
               LET node == index.nodes[i]
               IN  (node.tier # "core" /\ node.tier \in Range(ret.tiers)) =>
                       ( node.id \in ReturnedIds <=>
                             \E k \in Range(ret.keywords), w \in Range(node.keywords) :
                                 k = w \/ Substring(k, w) \/ Substring(w, k) )
        /\ ( /\ indexFile = << TwoNodeIndex >>
             /\ Len(index.nodes) = 2
             /\ ret.tiers = << "core", "contextual" >> ) =>
               /\ ret.keywords = ExtractKeywordsFromContext(CTX_DOG) =>
                      /\ Len(ret.result.entries) = 2
                      /\ KW_DOG \in Range(ret.result.matchedKeywords)
               /\ ret.keywords = ExtractKeywordsFromContext(CTX_WEATHER) =>
                      /\ Len(ret.result.entries) = 1
                      /\ ret.result.entries[1].tier = "core"

\* "tell me about my dog": both nodes, matched by dog.
KeywordMatchingWitness ==
    /\ ret.op = "findMatchingNodes"
    /\ indexFile = << TwoNodeIndex >>
    /\ Len(index.nodes) = 2
    /\ ret.tiers = << "core", "contextual" >>
    /\ ret.keywords = ExtractKeywordsFromContext(CTX_DOG)
    /\ {ret.result.entries[i].tier : i \in 1..Len(ret.result.entries)}
           = {"core", "contextual"}
    /\ KW_DOG \in Range(ret.result.matchedKeywords)

----------------------------------------------------------------------------
(* Properties of the keyword extraction *)

\* Position i of text holds a letter, a digit or an underscore
IsWordAt(text, i) == i \in 1..Len(text) /\ text[i] \in WordChars

\* The positions where a maximal run of word characters starts, and the end
\* of the run that starts at i
RunStarts(text) == {i \in 1..Len(text) : IsWordAt(text, i) /\ ~IsWordAt(text, i - 1)}

RunEnd(text, i) == Least({j \in i..Len(text) : ~IsWordAt(text, j + 1)})

\* The starts of the runs of three characters and more
TokenStarts(text) == {i \in RunStarts(text) : RunEnd(text, i) - i + 1 >= 3}

\* The k-th token of three characters and more, in lower case
TokenAt(text, k) ==
    LET i == CHOOSE a \in TokenStarts(text) :
                 Cardinality({b \in TokenStarts(text) : b < a}) = k - 1
    IN  ToLowerCase(SubSeq(text, i, RunEnd(text, i)))

\* The tokens and the phrases of two and three adjacent tokens
ExpectedKeywords(text) ==
    LET n == Cardinality(TokenStarts(text))
        blank == << " " >>
    IN  {TokenAt(text, k) : k \in 1..n}
            \cup {TokenAt(text, k) \o blank \o TokenAt(text, k + 1) : k \in 1..(n - 1)}
            \cup {TokenAt(text, k) \o blank \o TokenAt(text, k + 1) \o blank
                       \o TokenAt(text, k + 2) : k \in 1..(n - 2)}

\* C21: keyword extraction returns, without duplicates, exactly the tokens of
\* three characters and more of the lower-cased text, split at punctuation
\* and white space, and every phrase of two and of three adjacent tokens of
\* that filtered sequence; no shorter token appears alone or in a phrase.
KeywordExtraction ==
    ret.op = "extractKeywordsFromContext" =>
        /\ Range(ret.keywords) = ExpectedKeywords(ret.text)
        /\ Cardinality(Range(ret.keywords)) = Len(ret.keywords)
        /\ \A kw \in Range(ret.keywords) :
               \A part \in Range(Split(kw, " ")) : Len(part) >= 3

\* A text with a short word between two occurrences of one long word, one
\* of them with a capital: the word once, and the phrase across the short word.
KeywordExtractionWitness ==
    /\ ret.op = "extractKeywordsFromContext"
    /\ Cardinality(RunStarts(ret.text)) = 3
    /\ Cardinality(TokenStarts(ret.text)) = 2
    /\ TokenAt(ret.text, 1) = TokenAt(ret.text, 2)
    /\ ret.text[1] \notin LowerLetters
    /\ Len(ret.keywords) = 2

----------------------------------------------------------------------------
(* Properties of the matched keywords *)

\* The returned entries that carry the keyword kw
EntriesWith(kw) ==
    {i \in 1..Len(ret.result.entries) : kw \in Range(ret.result.entries[i].keywords)}

\* C22: the matchedKeywords list findMatchingNodes returns never holds the
\* same keyword twice, however many hits the keyword contributes, and every
\* keyword in it is a keyword of a returned node.
MatchedKeywordsOnce ==
    ret.op = "findMatchingNodes" =>
        /\ \A i, j \in 1..Len(ret.result.matchedKeywords) :
               ret.result.matchedKeywords[i] = ret.result.matchedKeywords[j] => i = j
        /\ \A kw \in Range(ret.result.matchedKeywords) : EntriesWith(kw) # {}

\* dog hits two nodes by the exact lookup and again by the partial match,
\* and is listed once, beside another matched keyword.
MatchedKeywordsOnceWitness ==
    /\ ret.op = "findMatchingNodes"
    /\ KW_DOG \in Range(ret.keywords)
    /\ Cardinality(EntriesWith(KW_DOG)) >= 2
    /\ KW_DOG \in Range(ret.result.matchedKeywords)
    /\ Len(ret.result.matchedKeywords) >= 2

\* C35: every entry findMatchingNodes returns has a tier of the requested
\* list, whether the node was reached as a core node, by the exact lookup of
\* a keyword or by a partial match.
ReturnedTiersRequested ==
    ret.op = "findMatchingNodes" =>
        \A i \in 1..Len(ret.result.entries) :
            ret.result.entries[i].tier \in Range(ret.tiers)

\* Core is not requested and identity is looked up, the keyword of a core
\* node; dogs matches dog partially, a keyword of an archival and of a
\* contextual node, both requested
ReturnedTiersRequestedWitness ==
    /\ ret.op = "findMatchingNodes"
    /\ "core" \notin Range(ret.tiers)
    /\ ret.keywords = << KW_IDENTITY, KW_DOGS >>
    /\ \E id \in Range(IdsOf(index.keywordMap, KW_IDENTITY)) :
           HasNode(index.nodes, id) /\ NodeOf(index.nodes, id).tier = "core"
    /\ {ret.result.entries[i].tier : i \in 1..Len(ret.result.entries)}
           = {"contextual", "archival"}

\* C33: when a createMemoryNode call has a title other than that of the call
\* before it and both titles derive one id, the call returns, the index it
\* holds and has saved has exactly one entry of that id, with the title of
\* the later call, and the node file of that id is the one the later call
\* wrote.
SameIdOverwrites ==
    (/\ ret.op = "createMemoryNode"
     /\ Len(created) >= 2
     /\ created[Len(created)].id = created[Len(created) - 1].id
     /\ created[Len(created)].title # created[Len(created) - 1].title)
    => LET last == created[Len(created)]
       IN  /\ "threw" \notin DOMAIN ret
           /\ Cardinality({i \in 1..Len(index.nodes) : index.nodes[i].id = last.id}) = 1
           /\ NodeOf(index.nodes, last.id).title = last.title
           /\ NodeOf(index.nodes, last.id) = last.entry
           /\ indexFile = << SerializeMemoryIndexToMarkdown(index) >>
           /\ nodeFiles[NodeFilePath(last.id)].title = last.title

\* a-b was created after a b: both have the id a_b
SameIdOverwritesWitness ==
    /\ ret.op = "createMemoryNode"
    /\ Len(created) = 2
    /\ created[1].title = <<"a"," ","b">>
    /\ created[2].title = <<"a","-","b">>
    /\ created[1].id = created[2].id
    /\ Len(created[1].entry.keywords) > 0

----------------------------------------------------------------------------
(* Properties of the recorders and of report delivery *)

\* The two lists a morning report is assembled from, as persisted
Insights == LoadDreamState(dreamFile).insights
CompletedTopics == LoadResearchState(researchFile).completedTopics

\* C23: recordActivity, recordDream and recordResearch, in any order and
\* number, leave every element of DreamState.insights and of
\* ResearchState.completedTopics as it was; a step that changes either list
\* is a recordMorningReport, and it leaves both empty.
ListsClearedOnlyByDelivery ==
    [][ /\ ret'.op \in {"recordActivity", "recordDream", "recordResearch"}
           => Insights' = Insights /\ CompletedTopics' = CompletedTopics
        /\ (Insights' # Insights \/ CompletedTopics' # CompletedTopics)
           => /\ ret'.op = "recordMorningReport"
              /\ Insights' = << >>
              /\ CompletedTopics' = << >> ]_vars

\* Every recorder has run, the last of them recordResearch, and both lists
\* are whole
ListsClearedOnlyByDeliveryWitness ==
    /\ ret.op = "recordResearch"
    /\ LoadResearchState(researchFile).lastResearchAt = << now >>
    /\ LoadDreamState(dreamFile).lastDreamAt = << now >>
    /\ activityAt = << now - 30 >>
    /\ Insights = FullDreamState.insights
    /\ CompletedTopics = FullResearchState.completedTopics
    /\ reported = {}

\* C24: recordActivity persists a dream state whose lastUserActivityAt is the
\* current time and whose lastDreamAt, pendingConsolidation and insights are
\* those of the state persisted before; the research state file is untouched.
RecordActivityFrame ==
    [][ ret'.op = "recordActivity"
        => /\ dreamFile' # NoFile
           /\ LoadDreamState(dreamFile').lastUserActivityAt = << now >>
           /\ LoadDreamState(dreamFile').lastDreamAt = LoadDreamState(dreamFile).lastDreamAt
           /\ LoadDreamState(dreamFile').pendingConsolidation
                  = LoadDreamState(dreamFile).pendingConsolidation
           /\ LoadDreamState(dreamFile').insights = LoadDreamState(dreamFile).insights
           /\ researchFile' = researchFile ]_vars

\* recordActivity ran, later than the start, on a state with a dream, a
\* pending log and insights, beside a research state with every field
RecordActivityFrameWitness ==
    /\ ret.op = "recordActivity"
    /\ now > StartTime
    /\ dreamFile = << [FullDreamState EXCEPT !.lastUserActivityAt = << now >>] >>
    /\ researchFile = << FullResearchState >>

\* The dates a report was saved for by saveMorningReport and not yet
\* overwritten
SavedDates == {d \in DOMAIN reportFiles : "sections" \in DOMAIN reportFiles[d]}

\* What generateMorningReportMessage would assemble from the persisted states
Assembled ==
    MorningReportMessage(LoadResearchState(researchFile), LoadDreamState(dreamFile))

SavedSectionsSurviveDelivery ==
    [][ (/\ ret'.op = "recordMorningReport"
         /\ FormatDate(now) \in SavedDates
         /\ Len(reportFiles[FormatDate(now)].sections) > 0)
        => /\ "sections" \in DOMAIN reportFiles'[FormatDate(now)]
           /\ reportFiles'[FormatDate(now)].sections
                  = reportFiles[FormatDate(now)].sections ]_vars

----------------------------------------------------------------------------
(* Properties of missing, unreadable and malformed files *)

\* The call completed: it returned and did not throw
Returned(r) == "threw" \notin DOMAIN r

\* C25: on a missing file loadDreamState and loadResearchState return the
\* default state and loadMemoryIndex returns null; createMemoryNode on a
\* workspace with no index file returns, holds an index whose only node is
\* the new entry and whose keyword map lists that node under each of its
\* keywords, and writes that index to the index file; when reading the index
\* fails for another reason, loadMemoryIndex and createMemoryNode throw that
\* error and the index file is left as it was.
MissingFileIsNoError ==
    [][ /\ (ret'.op = "loadDreamState" /\ dreamFile = NoFile)
           => ret'.state = DefaultDreamState
        /\ (ret'.op = "loadResearchState" /\ researchFile = NoFile)
           => ret'.state = DefaultResearchState
        /\ (ret'.op = "loadMemoryIndex" /\ indexFile = NoFile)
           => Returned(ret') /\ ret'.found = FALSE
        /\ (ret'.op = "createMemoryNode" /\ indexFile = NoFile)
           => /\ Returned(ret')
              /\ Len(index'.nodes) = 1
              /\ index'.nodes[1].id = ret'.id
              /\ index'.nodes[1].title = ret'.title
              /\ index'.nodes[1].keywords = ret'.keywords
              /\ {index'.keywordMap[i].keyword : i \in 1..Len(index'.keywordMap)}
                     = Range(ret'.keywords)
              /\ \A i \in 1..Len(index'.keywordMap) :
                     index'.keywordMap[i].ids = << ret'.id >>
              /\ indexFile' = << SerializeMemoryIndexToMarkdown(index') >>
        /\ (ret'.op \in {"loadMemoryIndex", "createMemoryNode"} /\ ReadFails(indexFile))
           => /\ ~Returned(ret')
              /\ ret'.threw = indexFile[2]
              /\ indexFile' = indexFile ]_vars

\* createMemoryNode returned on a workspace that had no index file, beside
\* state files that do not exist
MissingFileIsNoErrorWitness ==
    /\ ret.op = "createMemoryNode"
    /\ Returned(ret)
    /\ Len(created) = 1
    /\ Len(ret.keywords) = 2
    /\ dreamFile = NoFile
    /\ researchFile = NoFile

\* C26: a state file that is not JSON makes loadDreamState, loadResearchState
\* and the recorders throw, and the file is left as it was.
MalformedStateIsFatal ==
    [][ /\ (ret'.op \in {"loadDreamState", "recordActivity"} /\ Malformed(dreamFile))
           => ~Returned(ret') /\ dreamFile' = dreamFile
        /\ (ret'.op \in {"loadResearchState", "recordResearch"} /\ Malformed(researchFile))
           => ~Returned(ret') /\ researchFile' = researchFile ]_vars

\* The files recordMorningReport writes
Files == [reportFiles |-> reportFiles, researchFile |-> researchFile,
          dreamFile |-> dreamFile]

\* The files after one recordMorningReport that completes at time t on the
\* files b
SingleRun(b, t) ==
    [reportFiles |-> (FormatDate(t) :> [date |-> FormatDate(t), sentAt |-> t])
                         @@ b.reportFiles,
     researchFile |-> << [LoadResearchState(b.researchFile)
                              EXCEPT !.completedTopics = << >>] >>,
     dreamFile |-> << [LoadDreamState(b.dreamFile) EXCEPT !.insights = << >>] >>]

\* recordMorningReport runs to completion on the files a call that threw left
\* behind, on the date of that call
RetryStep ==
    /\ interrupted # << >>
    /\ Files = interrupted[1].after
    /\ FormatDate(now) = FormatDate(interrupted[1].at)
    /\ ret'.op = "recordMorningReport"
    /\ Returned(ret')

----------------------------------------------------------------------------
(* Properties of research topic detection *)

\* The number of nodes of the index that the keyword map lists under keyword
ReferencingNodes(idx, keyword) ==
    Cardinality({id \in Range(IdsOf(idx.keywordMap, keyword)) : HasNode(idx.nodes, id)})

\* The place of keyword in topics; 0 when it is not among them
PlaceOf(topics, keyword) ==
    IF \E i \in 1..Len(topics) : topics[i] = keyword
    THEN CHOOSE i \in 1..Len(topics) : topics[i] = keyword
    ELSE 0

\* The keywords of the keyword map
MapKeywords(idx) == {idx.keywordMap[i].keyword : i \in 1..Len(idx.keywordMap)}

\* C30: of two keywords of the keyword map, the one more nodes reference is
\* never placed after the other, and is never left out of the ten topics
\* while the other is among them.
MoreReferencedRanksHigher ==
    ret.op = "detectResearchTopics"
    => \A a \in MapKeywords(index), b \in MapKeywords(index) :
           (/\ ReferencingNodes(index, a) > ReferencingNodes(index, b)
            /\ PlaceOf(ret.topics, b) > 0)
           => /\ PlaceOf(ret.topics, a) > 0
              /\ PlaceOf(ret.topics, a) < PlaceOf(ret.topics, b)

----------------------------------------------------------------------------
(* Properties of the interval strings of the legacy gates *)

\* The number a string of digits denotes
DigitsValue == (<< "3" >> :> 3) @@ (<< "0" >> :> 0) @@ (<< "0", "0", "7" >> :> 7)
                   @@ (<< "2", "0" >> :> 20)

\* The milliseconds of a unit
UnitMs == (<< "m", "s" >> :> 1) @@ (<< "s" >> :> 1000) @@ (<< "m" >> :> 60000)
              @@ (<< "h" >> :> 3600000) @@ (<< "d" >> :> 86400000)

\* The milliseconds a string stands for: digits followed by a unit, the unit
\* in either case, give the number times the unit; anything else gives 0
ExpectedMs(duration) ==
    IF \E digits \in DOMAIN DigitsValue, unit \in DOMAIN UnitMs,
          cased \in DurationUnits :
           ToLowerCase(cased) = unit /\ duration = digits \o cased
    THEN LET digits == CHOOSE digits \in DOMAIN DigitsValue :
                           \E cased \in DurationUnits :
                               /\ ToLowerCase(cased) \in DOMAIN UnitMs
                               /\ duration = digits \o cased
             unit == ToLowerCase(SubSeq(duration, Len(digits) + 1, Len(duration)))
         IN  DigitsValue[digits] * UnitMs[unit]
    ELSE 0

\* config.every is given and stands for no time
ZeroInterval(config) ==
    /\ config.every # Undefined
    /\ config.every[1] # << >>
    /\ ExpectedMs(config.every[1]) = 0

\* C32: parseDuration gives the number times the milliseconds of the unit for
\* digits followed by ms, s, m, h or d ("3h" gives 10,800,000) and 0 for every
\* other string; an enabled legacy gate whose interval is 0 does not answer
\* false for a recent lastDreamAt or lastResearchAt: shouldResearchLegacy is
\* true, and shouldDreamLegacy is false only for a recent user activity.
DurationParsing ==
    /\ ParseDuration(<< "3", "h" >>) = 10800000
    /\ ret.op = "parseDuration" => ret.result = ExpectedMs(ret.duration)
    /\ (ret.op = "shouldResearchLegacy" /\ ret.config.enabled = << TRUE >>
           /\ ZeroInterval(ret.config))
       => ret.result = TRUE
    /\ (ret.op = "shouldDreamLegacy" /\ ret.config.enabled = << TRUE >>
           /\ ZeroInterval(ret.config))
       => ret.result = ~(/\ Truthy(LoadDreamState(dreamFile).lastUserActivityAt)
                         /\ Since(now, LoadDreamState(dreamFile).lastUserActivityAt[1])
                                < DEFAULT_DREAM_MIN_IDLE * MsPerMinute)

\* The dream gate is open ten minutes after a dream, its interval being the
\* string soon
DurationParsingWitness ==
    /\ ret.op = "shouldDreamLegacy"
    /\ ret.config.every = << << "s", "o", "o", "n" >> >>
    /\ LoadDreamState(dreamFile).lastDreamAt = << now - 10 >>
    /\ ret.result = TRUE

----------------------------------------------------------------------------
(* Properties of createMemoryNode on the entries of other nodes *)

\* The entry is in the index document: its line, with its title, path and
\* keywords, stands in the section of its tier
Persisted(file, entry) ==
    /\ file # NoFile
    /\ ~ReadFails(file)
    /\ LET lines == Split(file[1], "\n")
           headers == {TierHeader(Tiers[k]) : k \in 1..Len(Tiers)}
       IN  \E i, j \in 1..Len(lines) :
               /\ i < j
               /\ lines[i] = TierHeader(entry.tier)
               /\ lines[j] = EntryLine(entry)
               /\ \A k \in (i + 1)..(j - 1) : lines[k] \notin headers

\* The calls before the last whose entry a call of another id has to keep
EarlierOthers(calls, id) ==
    {i \in 1..Len(calls) : calls[i].id # id}

\* C34: a createMemoryNode call that returns leaves every entry of another id
\* that earlier createMemoryNode calls had persisted in the index document,
\* with the same title, tier, path and keywords.
OtherNodesPreserved ==
    [][(ret'.op = "createMemoryNode" /\ Returned(ret'))
        => \A i \in EarlierOthers(created, ret'.id) :
               Persisted(indexFile, created[i].entry)
                   => Persisted(indexFile', created[i].entry)]_vars

\* The same for the entries that were created with at least one keyword
OtherNodesWithKeywordsPreserved ==
    [][(ret'.op = "createMemoryNode" /\ Returned(ret'))
        => \A i \in EarlierOthers(created, ret'.id) :
               (Persisted(indexFile, created[i].entry)
                    /\ Len(created[i].entry.keywords) > 0)
                   => Persisted(indexFile', created[i].entry)]_vars

\* An entry created without keywords was persisted and a call of another id
\* followed
EntryWithoutKeywordsThenOtherCall ==
    /\ ret.op = "createMemoryNode"
    /\ Len(created) = 2
    /\ created[1].id # created[2].id
    /\ Len(created[1].entry.keywords) = 0
    /\ ~Persisted(indexFile, created[1].entry)
    /\ NodeFilePath(created[1].id) \in DOMAIN nodeFiles

----------------------------------------------------------------------------
(* Concurrent createMemoryNode calls on one workspace (core-memory.ts) *)

\* createMemoryNode awaits the node document's write, the index document's
\* read and the index document's write: between two of them another caller's
\* steps may run. A caller holds its arguments, the index it loaded with its
\* entry put in (copy) and the number of index saves that had completed when
\* it loaded (version).

RaceTitles == { <<"M", "a", "x">>, <<"a", " ", "b">>, <<"a", "-", "b">> }

RaceKeywordLists == { << <<"D", "o", "g">> >>, << >> }

RaceIndexFiles == { NoFile, << HandEditedIndex >> }

\* tier = "contextual" when the caller gives none
RaceTiers == { "contextual" }

\* Calls that were started and have not returned
InFlight == {p \in Procs : procs[p].pc # "idle"}

\* The caller enters createMemoryNode
CreateStart(p, title, keywords, content, tier) ==
    /\ procs[p].pc = "idle"
    /\ Len(created) + Cardinality(InFlight) < MaxCreates
    /\ procs' = [procs EXCEPT ![p] =
                    [op |-> "createMemoryNode", pc |-> "writeNode",
                     args |-> [title |-> title, keywords |-> keywords,
                               content |-> content, tier |-> tier],
                     copy |-> << >>, version |-> 0, calls |-> procs[p].calls,
                     fired |-> Null]]
    /\ ret' = [op |-> "start", proc |-> p]
    /\ UNCHANGED << now, ticks, tz, dreamVersion, overwrote, interrupted >>
    /\ UNCHANGED memVars
    /\ UNCHANGED schedVars

\* await fs.writeFile(fullPath, nodeContent, "utf-8")
CreateWriteNode(p) ==
    LET args == procs[p].args
    IN  /\ procs[p].pc = "writeNode"
        /\ nodeFiles' = (NodeFilePath(NodeId(args.title)) :>
                             [title |-> args.title, keywords |-> args.keywords,
                              created |-> now, content |-> args.content])
                            @@ nodeFiles
        /\ procs' = [procs EXCEPT ![p] = [@ EXCEPT !.pc = "loadIndex"]]
        /\ ret' = [op |-> "writeNode", proc |-> p]
        /\ UNCHANGED << now, ticks, tz, dreamVersion, overwrote, interrupted >>
        /\ UNCHANGED << indexFile, index, created, lookups >>
        /\ UNCHANGED schedVars

\* await loadMemoryIndex(...), then the entry is put into the loaded index
\* before the next await
CreateLoadIndex(p) ==
    LET args == procs[p].args
        entry == NewEntry(args.title, args.keywords, args.tier, now)
    IN  /\ procs[p].pc = "loadIndex"
        /\ procs' = [procs EXCEPT ![p] =
                        [@ EXCEPT !.pc = "saveIndex",
                                  !.copy = << IndexAfterCreate(indexFile, entry, now) >>,
                                  !.version = Len(created)]]
        /\ ret' = [op |-> "loadIndex", proc |-> p]
        /\ UNCHANGED << now, ticks, tz, dreamVersion, overwrote, interrupted >>
        /\ UNCHANGED memVars
        /\ UNCHANGED schedVars

\* The save of an index loaded again at the time of the save
CreateSaveIndexReloading(p) ==
    LET args == procs[p].args
        entry == NewEntry(args.title, args.keywords, args.tier, now)
        idx == IndexAfterCreate(indexFile, entry, now)
    IN  /\ procs[p].pc = "saveIndex"
        /\ index' = idx
        /\ indexFile' = << SerializeMemoryIndexToMarkdown(idx) >>
        /\ created' = Append(created, [title |-> args.title, id |-> entry.id,
                                       entry |-> entry])
        /\ procs' = [procs EXCEPT ![p] = [IdleProc EXCEPT !.calls = procs[p].calls + 1,
                                                         !.version = procs[p].version]]
        /\ ret' = [op |-> "createMemoryNode", id |-> entry.id, title |-> args.title,
                   keywords |-> entry.keywords, tier |-> args.tier, proc |-> p]
        /\ UNCHANGED << now, ticks, tz, nodeFiles, lookups >>
        /\ UNCHANGED << dreamVersion, overwrote, interrupted >>
        /\ UNCHANGED schedVars

\* await saveMemoryIndex(...): the caller's copy replaces the index document,
\* and the call returns
CreateSaveIndex(p) ==
    LET args == procs[p].args
        idx == procs[p].copy[1]
        entry == NodeOf(idx.nodes, NodeId(args.title))
    IN  /\ procs[p].pc = "saveIndex"
        /\ index' = idx
        /\ indexFile' = << SerializeMemoryIndexToMarkdown(idx) >>
        /\ created' = Append(created, [title |-> args.title, id |-> entry.id,
                                       entry |-> entry])
        /\ procs' = [procs EXCEPT ![p] = [IdleProc EXCEPT !.calls = procs[p].calls + 1,
                                                         !.version = procs[p].version]]
        /\ ret' = [op |-> "createMemoryNode", id |-> entry.id, title |-> args.title,
                   keywords |-> entry.keywords, tier |-> args.tier, proc |-> p]
        /\ UNCHANGED << now, ticks, tz, nodeFiles, lookups >>
        /\ UNCHANGED << dreamVersion, overwrote, interrupted >>
        /\ UNCHANGED schedVars

InitCreateRace ==
    /\ InitClock
    /\ tz = 0
    /\ indexFile \in RaceIndexFiles
    /\ nodeFiles = << >>
    /\ index = EmptyIndex
    /\ created = << >>
    /\ lookups = 0
    /\ dreamFile = NoFile
    /\ researchFile = NoFile
    /\ reportFiles = << >>
    /\ activityAt = Null
    /\ reported = {}
    /\ cleared = [topics |-> {}, insights |-> {}]
    /\ procs = [p \in Procs |-> IdleProc]
    /\ dreamVersion = 0
    /\ overwrote = FALSE
    /\ interrupted = << >>

NextCreateRace ==
    \/ \E p \in Procs, title \in RaceTitles, keywords \in RaceKeywordLists,
          content \in Bodies, tier \in RaceTiers :
           CreateStart(p, title, keywords, content, tier)
    \/ \E p \in Procs : CreateWriteNode(p)
    \/ \E p \in Procs : CreateLoadIndex(p)
    \/ \E p \in Procs : CreateSaveIndex(p)

SpecCreateRace == InitCreateRace /\ [][NextCreateRace]_vars

----------------------------------------------------------------------------
(* Properties of concurrent createMemoryNode calls *)

\* Two entries that the index document writes alike
SameLine(a, b) == a.tier = b.tier /\ EntryLine(a) = EntryLine(b)

\* C36: the index save of a createMemoryNode call persists the caller's own
\* entry, after its node document was written, and keeps an entry of another
\* id that was persisted with keywords exactly when that entry had been
\* saved before the caller loaded the index: an entry saved between the
\* caller's load and its save is lost from the index document, although the
\* node document of that entry is there.
LostExactlyWhenSavedAfterLoad ==
    [][(ret'.op = "createMemoryNode" /\ "proc" \in DOMAIN ret')
        => LET mine == created'[Len(created')].entry
               loaded == procs[ret'.proc].version
           IN  /\ Persisted(indexFile', mine)
               /\ mine.filePath \in DOMAIN nodeFiles'
               /\ \A i \in EarlierOthers(created, mine.id) :
                      (/\ Persisted(indexFile, created[i].entry)
                       /\ Len(created[i].entry.keywords) > 0)
                          => /\ created[i].entry.filePath \in DOMAIN nodeFiles'
                             /\ Persisted(indexFile', created[i].entry)
                                    <=> \E j \in 1..loaded :
                                            SameLine(created[j].entry, created[i].entry)]_vars

\* Two calls with different titles and ids have returned, both node documents
\* were written, and the index document lacks the entry of the first one
LostExactlyWhenSavedAfterLoadWitness ==
    /\ InFlight = {}
    /\ Len(created) = 2
    /\ created[1].title # created[2].title
    /\ created[1].id # created[2].id
    /\ Len(created[1].entry.keywords) > 0
    /\ created[1].entry.filePath \in DOMAIN nodeFiles
    /\ created[2].entry.filePath \in DOMAIN nodeFiles
    /\ ~Persisted(indexFile, created[1].entry)
    /\ ~HasNode(ParseMemoryIndexMarkdown(indexFile[1], now).nodes, created[1].id)
    /\ Persisted(indexFile, created[2].entry)
    /\ \A p \in Procs : procs[p].calls = 1 /\ procs[p].version = 0

----------------------------------------------------------------------------
(* Research topics from the daily logs, and the research prompt (behaviors.ts) *)

\* The phrase is one word of another case, ended by a full stop
LOG_ONE_WORD ==
    << "i", "n", "t", "e", "r", "e", "s", "t", "e", "d", " ", "i", "n",
       " ", "X", "." >>

\* Two cues; the first phrase has two words with a tab between
LOG_TWO_CUES ==
    << "L", "e", "a", "r", "n", " ", "A", "b", "o", "u", "t", " ", " ",
       "c", "a", "t", "s", "\t", "n", "o", "w", ",", " ", "c", "u", "r",
       "i", "o", "u", "s", " ", "a", "b", "o", "u", "t", " ", "y" >>

\* The same phrase twice, in two cases
LOG_REPEATED ==
    << "w", "a", "n", "t", " ", "t", "o", " ", "k", "n", "o", "w", " ",
       "x", ";", " ", "I", "N", "T", "E", "R", "E", "S", "T", "E", "D",
       " ", "I", "N", " ", "X" >>

\* A cue with no phrase after it
LOG_NO_PHRASE ==
    << "i", "n", "t", "e", "r", "e", "s", "t", "e", "d", " ", "i", "n",
       ".", " ", "h", "e", "l", "l", "o" >>

\* The phrase runs into the next line and swallows its cue
LOG_ACROSS_LINES ==
    << "c", "u", "r", "i", "o", "u", "s", " ", "a", "b", "o", "u", "t",
       " ", "g", "o", "\n", "w", "a", "n", "t", " ", "t", "o", " ", "k",
       "n", "o", "w", " ", "g", "o" >>

\* (?:interested in|learn about|curious about|want to know)
CUES ==
    << << "i", "n", "t", "e", "r", "e", "s", "t", "e", "d", " ", "i", "n" >>,
       << "l", "e", "a", "r", "n", " ", "a", "b", "o", "u", "t" >>,
       << "c", "u", "r", "i", "o", "u", "s", " ", "a", "b", "o", "u", "t" >>,
       << "w", "a", "n", "t", " ", "t", "o", " ", "k", "n", "o", "w" >> >>

\* The cues that match at position i of s, compared without case
CuesAt(s, i) ==
    {k \in 1..Len(CUES) :
        /\ i + Len(CUES[k]) - 1 <= Len(s)
        /\ ToLowerCase(SubSeq(s, i, i + Len(CUES[k]) - 1)) = CUES[k]}

\* \w+ from position i: the last index of the longest run of word characters
\* that starts at i; i - 1 if s[i] is none
WordEnd(s, i) ==
    CHOOSE j \in (i - 1)..Len(s) :
        /\ \A k \in i..j : s[k] \in WordChars
        /\ j = Len(s) \/ s[j + 1] \notin WordChars

\* /(?:cue)\s+(\w+(?:\s+\w+)?)/i tried at position i: the last index of the
\* match, or 0 if the expression does not match there
MatchEndAt(s, i) ==
    LET cues == CuesAt(s, i)
    IN  IF cues = {} THEN 0
        ELSE LET word == SkipWs(s, i + Len(CUES[CHOOSE k \in cues : TRUE]))
             IN  IF word = i + Len(CUES[CHOOSE k \in cues : TRUE])
                    \/ WordEnd(s, word) < word
                 THEN 0
                 ELSE LET second == SkipWs(s, WordEnd(s, word) + 1)
                      IN  IF second > WordEnd(s, word) + 1
                             /\ WordEnd(s, second) >= second
                          THEN WordEnd(s, second)
                          ELSE WordEnd(s, word)

RECURSIVE InterestMatches(_, _)
\* content.match(/.../gi) from position i on: the matches from left to right,
\* each search starting behind the match before (an empty list stands for
\* the null that match returns when there is none)
InterestMatches(s, i) ==
    LET starts == {j \in i..Len(s) : MatchEndAt(s, j) > 0}
    IN  IF starts = {} THEN << >>
        ELSE LET first == CHOOSE j \in starts : \A k \in starts : j <= k
             IN  << SubSeq(s, first, MatchEndAt(s, first)) >>
                     \o InterestMatches(s, MatchEndAt(s, first) + 1)

\* match.replace(/^(interested in|learn about|curious about|want to know)\s+/i, "")
TopicOfMatch(match) ==
    LET cues == CuesAt(match, 1)
    IN  IF cues = {} THEN match
        ELSE LET after == Len(CUES[CHOOSE k \in cues : TRUE]) + 1
             IN  IF SkipWs(match, after) = after THEN match
                 ELSE SubSeq(match, SkipWs(match, after), Len(match))

\* The push of a topic whether or not the list has it
AddTopicAlways(topics, topic) ==
    IF Len(topic) > 0 THEN Append(topics, ToLowerCase(topic)) ELSE topics

\* if (topic && !topics.includes(topic.toLowerCase())) topics.push(topic.toLowerCase())
AddTopic(topics, topic) ==
    IF Len(topic) > 0 /\ ToLowerCase(topic) \notin Range(topics)
    THEN Append(topics, ToLowerCase(topic))
    ELSE topics

RECURSIVE AddTopicsOf(_, _, _)
\* for (const match of interestMatches) { ... }: the list after the first n
\* matches
AddTopicsOf(topics, matches, n) ==
    IF n = 0 THEN topics
    ELSE AddTopic(AddTopicsOf(topics, matches, n - 1), TopicOfMatch(matches[n]))

AddAllTopics(topics, matches) == AddTopicsOf(topics, matches, Len(matches))

\* The body of the loop over the two dates for one log: a log that is missing
\* or cannot be read leaves the list as it is (the catch is empty)
ScrapeLog(topics, log) ==
    IF log = NoFile \/ ReadFails(log) THEN topics
    ELSE AddAllTopics(topics, InterestMatches(log[1], 1))

\* detectResearchTopics(workspaceDir, memoryIndex): memoryIndex is << >> for
\* null; logs are memory/<today>.md and memory/<yesterday>.md
DetectResearchTopicsWithLogs(memoryIndex, logs) ==
    ScrapeLog(ScrapeLog(IF memoryIndex = Null THEN << >>
                        ELSE DetectResearchTopics(memoryIndex[1]),
                        logs[1]),
              logs[2])

DEFAULT_RESEARCH_MAX_SEARCHES == 5

PROMPT_TOPICS == 5

\* generateResearchPromptFromTopics(topics, {}): the text is fixed but for the
\* numbered list of topics.slice(0, 5) and the number of searches
GenerateResearchPromptFromTopics(topics) ==
    [topics |-> SubSeq(topics, 1, IF Len(topics) < PROMPT_TOPICS THEN Len(topics)
                                  ELSE PROMPT_TOPICS),
     maxSearches |-> DEFAULT_RESEARCH_MAX_SEARCHES]

\* What generateResearchPrompt returns for the topics detected
PromptReturned(logs, memoryIndex, topics) ==
    [op |-> "generateResearchPrompt", logs |-> logs,
     memoryIndex |-> memoryIndex, topics |-> topics,
     result |-> IF Len(topics) = 0 THEN Null
                ELSE << GenerateResearchPromptFromTopics(topics) >>]

\* The topics of the index loaded
PromptOfIndex(logs, memoryIndex) ==
    PromptReturned(logs, memoryIndex, DetectResearchTopicsWithLogs(memoryIndex, logs))

\* generateResearchPrompt({workspaceDir}) in a workspace whose daily logs of
\* today and yesterday are logs
GenerateResearchPrompt(logs) ==
    /\ ret' = IF ReadFails(indexFile)
              THEN [op |-> "generateResearchPrompt", threw |-> indexFile[2]]
              ELSE PromptOfIndex(logs,
                                 IF indexFile = NoFile THEN Null
                                 ELSE << ParseMemoryIndexMarkdown(indexFile[1], now) >>)
    /\ UNCHANGED << now, ticks, tz >>
    /\ UNCHANGED memVars
    /\ UNCHANGED schedVars
    /\ UNCHANGED raceVars

\* The daily log of today and the one of yesterday
TodayLogs ==
    { NoFile, Unreadable, << LOG_ONE_WORD >>, << LOG_TWO_CUES >>, << LOG_REPEATED >>,
      << LOG_NO_PHRASE >>, << LOG_ACROSS_LINES >> }

YesterdayLogs == { NoFile, << LOG_REPEATED >> }

LogPairs == { << today, yesterday >> : today \in TodayLogs, yesterday \in YesterdayLogs }

PromptTitles == { << "F" >> }

\* The workspaces of at most three nodes, and one whose index cannot be read
PromptIndexFiles ==
    { IF w = << >> THEN NoFile
      ELSE << SerializeMemoryIndexToMarkdown(IndexOfNodes(w, Len(w))) >> :
      w \in {v \in TopicWorkspaces : Len(v) <= 3} } \cup { Unreadable }

InitPrompt ==
    /\ InitClock
    /\ tz = 0
    /\ indexFile \in PromptIndexFiles
    /\ nodeFiles = << >>
    /\ index = EmptyIndex
    /\ created = << >>
    /\ lookups = 0
    /\ InitSched

NextPrompt ==
    \/ \E title \in PromptTitles, keywords \in TopicKeywordLists, content \in Bodies :
           CreateMemoryNode(title, keywords, content, "contextual")
    \/ \E logs \in LogPairs : GenerateResearchPrompt(logs)

SpecPrompt == InitPrompt /\ [][NextPrompt]_vars

----------------------------------------------------------------------------
(* Properties of the topic candidate list and of the research prompt *)

\* The case-folded phrases of a log, in the order of the text
FoldedPhrases(log) ==
    IF log = NoFile \/ ReadFails(log) THEN << >>
    ELSE LET matches == InterestMatches(log[1], 1)
         IN  [n \in 1..Len(matches) |-> ToLowerCase(TopicOfMatch(matches[n]))] \o << >>

\* C31: the topic list of a generateResearchPrompt call that returns is the
\* ranked keywords of the loaded index followed by the case-folded phrases of
\* the log of today and then of yesterday, each phrase at its first occurrence
\* and only if the list did not hold it; no element occurs twice; and the
\* result is null exactly when the list is empty.
TopicCandidates ==
    (ret.op = "generateResearchPrompt" /\ Returned(ret))
    => LET ranked == IF ret.memoryIndex = Null THEN << >>
                     ELSE DetectResearchTopics(ret.memoryIndex[1])
           topics == ret.topics
       IN  /\ topics = Unique(ranked \o FoldedPhrases(ret.logs[1])
                                     \o FoldedPhrases(ret.logs[2]))
           /\ SubSeq(topics, 1, Len(ranked)) = ranked
           /\ \A i, j \in 1..Len(topics) : topics[i] = topics[j] => i = j
           /\ (ret.result = Null) <=> (Len(topics) = 0)

\* The index ranks x before y, the log of today has the phrase "X" and a
\* phrase the index has not, the log of yesterday repeats "x": the list is
\* the two keywords and the one new phrase
TopicCandidatesWitness ==
    /\ ret.op = "generateResearchPrompt"
    /\ Returned(ret)
    /\ ret.logs = << << LOG_TWO_CUES >>, << LOG_REPEATED >> >>
    /\ ret.memoryIndex # Null
    /\ DetectResearchTopics(ret.memoryIndex[1]) = << <<"x">>, <<"y">> >>
    /\ ret.topics = << <<"x">>, <<"y">>, <<"c", "a", "t", "s", "\t", "n", "o", "w">> >>
    /\ ret.result # Null

\* No index document, no phrase in either log: no prompt
NoPromptWitness ==
    /\ ret.op = "generateResearchPrompt"
    /\ Returned(ret)
    /\ ret.memoryIndex = Null
    /\ ret.logs = << << LOG_NO_PHRASE >>, NoFile >>
    /\ ret.topics = << >>
    /\ ret.result = Null
====
